---- MODULE Spec2Model ----
(***************************************************************************)
(* Wallet authentication, identity linking and password accounts of the   *)
(* Fractal Recipe auth server (the Express app): the challenge store, the  *)
(* signature check, the session registry, the identity linker, the         *)
(* periodic sweep, the credential store and the password reset.            *)
(*                                                                         *)
(* Time is Date.now() in milliseconds.  The clock advances by one of the   *)
(* program's own time-to-live spans per step, so every expiry comparison   *)
(* is exercised below, at and above its boundary.                          *)
(*                                                                         *)
(* Not modelled in the wallet flow: the write-only timestamps createdAt /  *)
(* lastLoginAt / lastLinkedAt (no handler reads them), the email and       *)
(* displayName of a user record, and the Firebase custom token (the        *)
(* wallet specifications are those of a server without Firebase Admin).    *)
(*                                                                         *)
(* The credential store and the password-reset flow are the Firestore      *)
(* collections userCredentials and passwordResetOtps, as the routes use    *)
(* them once Firebase Admin is configured.  A handler of these routes is   *)
(* suspended at each await; the awaited store operation takes effect in    *)
(* one step, in which the handler also runs on to its next await or to its *)
(* response.  Failures of the store itself (a 500) are not modelled.       *)
(*                                                                         *)
(* The rate limiter is the rateLimit middleware of server/index.js.  The   *)
(* contract FractalRecipeRegistry is in the repository in two sources,     *)
(* with and without the lifetime membership; the contract specification    *)
(* starts from the constructor of either.  Amounts are in thousandths of   *)
(* an ether, block.timestamp is the clock in seconds.                      *)
(*                                                                         *)
(* The client is App (React) with the token helpers of its services: the   *)
(* state walletAddress, authToken and authProfile, the stored token, the   *)
(* session restore effect, the wallet/auth effect and the calls they make  *)
(* to /auth/profile and /auth/logout.  The Google identity state and the   *)
(* status texts are not modelled.                                          *)
(***************************************************************************)
EXTENDS Integers, Sequences, FiniteSets, Bags, TLC

VARIABLES
    now,              \* Date.now(), ms
    ticks,            \* number of clock advances so far
    pendingNonces,    \* Map: normalized address -> {nonce, message, expiresAt}
    walletDirectory,  \* Map: normalized address -> {address, googleId}
    userDirectory,    \* Map: googleId -> {googleId, wallets}
    activeTokens,     \* Map: token string -> {payload, expiresAt}
    nonceCount,       \* number of nonces drawn from randomBytes so far
    inflight,         \* bag of handlers suspended at an await
    nonceLog,         \* history: per nonce, its address, issue time and successful verifications
    revoked,          \* history: the tokens a logout has removed
    users,            \* userCredentials: normalized email -> {passwordHash, phone, lastLoginAt}
    otps,             \* passwordResetOtps: normalized phone -> {email, otpHash, attempts, expiresAt}
    otpCount,         \* number of codes drawn from randomInt so far
    otpLog,           \* history: per code, its phone, the codes checked against it, the resets it carried
    rateBuckets,      \* Map: ip:path -> {count, reset}
    windowLog,        \* history: per key, when its window opened, the requests in it and those passed on
    deployed,         \* which source of FractalRecipeRegistry is on chain
    recipes,          \* Recipe[]: the stored recipes
    lifetimeMembers,  \* mapping(address => bool), as the set of members
    balance,          \* address(this).balance, in units of 0.01 ether
    localStorage,     \* the browser's value under 'fractalAuthToken', Null when absent
    mounted,          \* whether the page is open and App is mounted
    walletAddress,    \* App state: the connected wallet, with the updates queued so far
    authToken,        \* App state: the session token, with the updates queued so far
    authProfile,      \* App state: the loaded profile, with the updates queued so far
    rendered,         \* the walletAddress and authToken the last render closed over
    effects,          \* the effects of the last commit that have not run yet
    requests,         \* the client's calls that have not settled yet
    restoring         \* history: the accepted token the page was opened with, while no wallet is connected

\* The credential store and its history.
cred == <<users, otps, otpCount, otpLog>>
\* The wallet flow's own state: untouched by the credential routes.
wallet == <<pendingNonces, walletDirectory, userDirectory, nonceCount, nonceLog, revoked>>

\* The rate limiter and its history.
limiter == <<rateBuckets, windowLog>>
\* The contract.
chain == <<deployed, recipes, lifetimeMembers, balance>>
\* The browser and the React state of App.
client == <<localStorage, mounted, walletAddress, authToken, authProfile, rendered,
            effects, requests, restoring>>
\* What no route of the auth flows touches.
apart == <<limiter, chain, client>>
\* The servers' state.
server == <<pendingNonces, walletDirectory, userDirectory, activeTokens, nonceCount,
            inflight, nonceLog, revoked, users, otps, otpCount, otpLog>>

vars == <<now, ticks, pendingNonces, walletDirectory, userDirectory, activeTokens,
          nonceCount, inflight, nonceLog, revoked, users, otps, otpCount, otpLog,
          rateBuckets, windowLog, deployed, recipes, lifetimeMembers, balance,
          localStorage, mounted, walletAddress, authToken, authProfile, rendered,
          effects, requests, restoring>>

(* ------------------------------ bounds -------------------------------- *)
MaxTicks == 1      \* clock advances
MaxChallenges == 1 \* challenges issued (SpecChallenge)
MaxNonces == 2     \* challenges issued (SpecSession, Spec)
MaxVerifying == 2  \* /auth/verify handlers suspended at once (SpecChallenge)
MaxSuspended == 1  \* handlers of one route suspended at once (SpecSession, Spec)
MaxSessions == 3   \* registry entries, counting those a suspended handler may add
MaxRevoked == 1    \* logouts remembered
MaxRegistering == 2 \* register handlers suspended at once (SpecRegisterRace)
MaxLogins == 1     \* password sessions issued (SpecAccount)
MaxOtps == 1       \* one-time codes drawn (SpecReset, SpecResetRace)
MaxResetting == 2  \* reset handlers suspended at once (SpecResetRace)
MaxReissues == 2   \* one-time codes drawn (SpecReissue)
MaxOverLimit == 1  \* requests beyond its limit a key sends in one window (SpecRateLimit)
MaxRecipes == 2    \* recipes stored in the contract (SpecRegistry)

(* -------------------------- program constants ------------------------- *)
TOKEN_TTL_SECONDS == 3600
NONCE_TTL_MS == 5 * 60 * 1000
JWT_SECRET == "server-secret"
Null == "null"

\* The spans the clock may advance by in one step.
ClockSteps == {NONCE_TTL_MS, TOKEN_TTL_SECONDS * 1000}

(* ------------------------------ Map ----------------------------------- *)
EmptyMap == [k \in {} |-> Null]
MapHas(m, k) == k \in DOMAIN m
MapSet(m, k, v) == [x \in (DOMAIN m) \cup {k} |-> IF x = k THEN v ELSE m[x]]
MapDelete(m, k) == [x \in (DOMAIN m) \ {k} |-> m[x]]

(* --------------------------- request values --------------------------- *)
\* A JSON value of a request body: a string (its characters) or a number; a
\* missing field reads as undefined.
Str(chars) == [type |-> "string", chars |-> chars]
ANumber == [type |-> "number", chars |-> <<>>]
Falsy(v) == v.type = "undefined" \/ (v.type = "string" /\ v.chars = <<>>)

W1 == <<"0", "x", "a">>
W2 == <<"0", "x", "b">>
Wallets == {W1, W2}
RawAddresses ==
    { Str(W1), Str(<<"0", "x", "A">>), Str(W2), Str(<<"0", "X", "a">>),
      Str(<<>>), ANumber }

GoogleIds == {"G1", "G2"}

Lower(c) ==
    CASE c = "A" -> "a"
      [] c = "B" -> "b"
      [] c = "X" -> "x"
      [] OTHER -> c
toLowerCase(s) == [i \in 1..Len(s) |-> Lower(s[i])]
startsWith0x(s) == Len(s) >= 2 /\ s[1] = "0" /\ s[2] = "x"

normalizeAddressThrows(address) ==
    address.type # "string" \/ ~startsWith0x(address.chars)
\* Variant: the address is kept as it was sent.
normalizeAddress_AsSent(address) == address.chars
\* address.toLowerCase()
normalizeAddress(address) == toLowerCase(address.chars)

\* The spellings a client may send that normalizeAddress maps to the address.
Spellings(a) ==
    {raw \in RawAddresses : ~normalizeAddressThrows(raw) /\ normalizeAddress(raw) = a}

(* ----------------------------- signatures ----------------------------- *)
Message(nonce) == <<"Sign in to Fractal Recipe", "Nonce: ", nonce>>
Sign(signer, message) == [kind |-> "sig", signer |-> signer, message |-> message]
MalformedSig == [kind |-> "malformed", signer |-> <<>>, message |-> <<>>]
EmptySig == [kind |-> "empty", signer |-> <<>>, message |-> <<>>]

\* What a client can present: a wallet's signature over a message the server
\* has issued, a malformed signature, or none.
SigInputs ==
    { Sign(w, Message(n)) : w \in Wallets, n \in 1..nonceCount }
        \cup {MalformedSig, EmptySig}

\* Variant: the recovered signer is not compared with the claimed address.
verifyMessage_AnySigner(address, message, signature) ==
    IF signature.kind = "malformed"
        THEN {"false", "throw"}
        ELSE {IF signature.message = message THEN "true" ELSE "false"}
\* viem's verifyMessage: recover the signer and compare it with the claimed
\* address.  On a signature it cannot parse the library either answers false
\* or throws.
verifyMessage(address, message, signature) ==
    IF signature.kind = "malformed"
        THEN {"false", "throw"}
        ELSE {IF signature.signer = address /\ signature.message = message
                  THEN "true" ELSE "false"}

(* ------------------------------- JWT ---------------------------------- *)
\* jwt.sign(payload, secret, {expiresIn}): HS256 is deterministic, so the
\* token string is a function of the payload, iat (whole seconds) and key.
JwtSign(payload, secret, t) ==
    [claims |-> payload, iat |-> t \div 1000,
     exp |-> (t \div 1000) + TOKEN_TTL_SECONDS, key |-> secret]
\* jwt.verify(token, secret): throws on a bad signature or once exp is reached.
JwtVerify(token, secret, t) == token.key = secret /\ (t \div 1000) < token.exp

Forge(token) == [token EXCEPT !.key = "attacker-secret"]
\* Authorization header: <<>> when missing, <<token>> for "Bearer <token>".
KnownTokens == (DOMAIN activeTokens) \cup revoked
Headers == {<<>>} \cup {<<t>> : t \in KnownTokens} \cup {<<Forge(t)>> : t \in KnownTokens}



(* --------------------------- Google provider -------------------------- *)
\* Access tokens a client may hold and the account each one belongs to at the
\* provider.  "at-bad" is not accepted by the provider's tokeninfo endpoint.
AccessTokens == {"at-G1", "at-bad"}
GoogleSub(accessToken) ==
    IF accessToken = "at-G1" THEN "G1" ELSE Null
Threw == [ok |-> FALSE, sub |-> Null]
UserInfo(sub) == [ok |-> TRUE, sub |-> sub]
\* verifyGoogleAccessToken: throws when tokeninfo or userinfo is not ok (an
\* invalid token, or the provider being unreachable), else the userinfo
\* document, whose sub the provider always sets.
verifyGoogleAccessToken(accessToken) ==
    IF GoogleSub(accessToken) = Null THEN {Threw}
    ELSE {UserInfo(GoogleSub(accessToken)), Threw}

(* ------------------------------- Init --------------------------------- *)
\* The two sources of the contract FractalRecipeRegistry in the repository.
GatedSource == "src/unnamed/part_011"
PlainSource == "src/contracts/FractalRecipeRegistry.sol"
Sources == {GatedSource, PlainSource}
\* The accounts of the chain; the first deploys the contract.
Deployer == "deployer"
Accounts == {Deployer, "alice", "bob"}

\* The contract after its constructor has run.
Constructor(source) ==
    /\ deployed = source
    /\ recipes = <<>>
    /\ lifetimeMembers = IF source = GatedSource THEN {Deployer} ELSE {}
    /\ balance = 0

\* The servers after start-up.
InitServers ==
    /\ now = 0
    /\ ticks = 0
    /\ pendingNonces = EmptyMap
    /\ walletDirectory = EmptyMap
    /\ userDirectory = EmptyMap
    /\ activeTokens = EmptyMap
    /\ nonceCount = 0
    /\ inflight = EmptyBag
    /\ nonceLog = <<>>
    /\ revoked = {}
    /\ users = EmptyMap
    /\ otps = EmptyMap
    /\ otpCount = 0
    /\ otpLog = <<>>
    /\ rateBuckets = EmptyMap
    /\ windowLog = EmptyMap

\* A value of the client that may be null: <<>> when null, else <<value>>.
None == <<>>
Some(value) == <<value>>

\* The browser before the page is opened: nothing stored, App not mounted.
InitClient ==
    /\ localStorage = None
    /\ mounted = FALSE
    /\ walletAddress = None
    /\ authToken = None
    /\ authProfile = None
    /\ rendered = [walletAddress |-> None, authToken |-> None, authProfile |-> None]
    /\ effects = <<>>
    /\ requests = {}
    /\ restoring = None

Init == InitServers /\ Constructor(GatedSource) /\ InitClient

(* ------------------------------ helpers ------------------------------- *)
\* createNonceRecord's stored value.
NonceRecord(nonce, t) ==
    [nonce |-> nonce, message |-> Message(nonce), expiresAt |-> t + NONCE_TTL_MS]

\* Variant: the record is made anew at every call.
buildWalletRecord_Fresh(dir, address) ==
    MapSet(dir, address, [address |-> address, googleId |-> Null])
\* buildWalletRecord: the directory after the call (the record is created
\* when absent; the caller reads the record at dir[address]).
buildWalletRecord(dir, address) ==
    IF MapHas(dir, address) THEN dir
    ELSE MapSet(dir, address, [address |-> address, googleId |-> Null])

\* issueJwt: the token, and the registry after the call.
issueJwtToken(payload, t) == JwtSign(payload, JWT_SECRET, t)
issueJwt(tokens, payload, t) ==
    MapSet(tokens, issueJwtToken(payload, t),
           [payload |-> payload, expiresAt |-> t + TOKEN_TTL_SECONDS * 1000])

\* Variant: the expiry comparison is left out.
NonceExpired_Never(record, t) == FALSE
\* record.expiresAt < Date.now()
NonceExpired(record, t) == record.expiresAt < t

\* Variant: an accepted challenge stays in the store.
DeleteNonce_Skipped(nonces, normalized) == nonces
\* pendingNonces.delete(normalized) once the signature has been accepted.
DeleteNonce(nonces, normalized) == MapDelete(nonces, normalized)

\* Variant: a link is never refused.
LinkConflict_Never(walletRecord, resolvedGoogleId) == FALSE
\* walletRecord.googleId && walletRecord.googleId !== resolvedGoogleId
LinkConflict(walletRecord, resolvedGoogleId) ==
    walletRecord.googleId # Null /\ walletRecord.googleId # resolvedGoogleId

\* Variant: the wallet record is not told about the link.
SetGoogleId_Skipped(dir, address, resolvedGoogleId) == dir
\* walletRecord.googleId = resolvedGoogleId
SetGoogleId(dir, address, resolvedGoogleId) ==
    [dir EXCEPT ![address].googleId = resolvedGoogleId]

\* Variant: the added wallet replaces the set.
SetAdd_Replace(seq, x) == <<x>>
\* Set.add on an insertion-ordered set.
SetAdd(seq, x) == IF \E i \in 1..Len(seq) : seq[i] = x THEN seq ELSE Append(seq, x)
Range(seq) == {seq[i] : i \in 1..Len(seq)}

(* --------------------------- POST /auth/nonce ------------------------- *)
NonceResult(address) ==
    IF Falsy(address) THEN
        [status |-> 400, error |-> "Wallet address required", pendingNonces |-> pendingNonces]
    ELSE IF normalizeAddressThrows(address) THEN
        [status |-> 400, error |-> "Invalid wallet address", pendingNonces |-> pendingNonces]
    ELSE
        [status |-> 200, error |-> Null,
         pendingNonces |-> MapSet(pendingNonces, normalizeAddress(address),
                                  NonceRecord(nonceCount + 1, now))]

Nonce(address) ==
    LET r == NonceResult(address) IN
    /\ pendingNonces' = r.pendingNonces
    /\ nonceCount' = IF r.status = 200 THEN nonceCount + 1 ELSE nonceCount
    /\ UNCHANGED <<now, ticks, walletDirectory, userDirectory, activeTokens, inflight>>

(* --------------------------- POST /auth/verify ------------------------ *)
\* The handler up to its first await (verifyMessage) or to its response.
\* status 0: no response yet, the handler is suspended as `handler`.
VerifyRequestResult(address, signature) ==
    LET normalized == normalizeAddress(address)
        none == [kind |-> "none"]
    IN
    IF Falsy(address) \/ signature.kind = "empty" THEN
        [status |-> 400, error |-> "Wallet address and signature are required",
         pendingNonces |-> pendingNonces, handler |-> none]
    ELSE IF normalizeAddressThrows(address) THEN
        [status |-> 500, error |-> "Invalid wallet address",
         pendingNonces |-> pendingNonces, handler |-> none]
    ELSE IF ~MapHas(pendingNonces, normalized) THEN
        [status |-> 400, error |-> "Nonce not found. Request a new one.",
         pendingNonces |-> pendingNonces, handler |-> none]
    ELSE IF NonceExpired(pendingNonces[normalized], now) THEN
        [status |-> 400, error |-> "Nonce expired. Request a new one.",
         pendingNonces |-> MapDelete(pendingNonces, normalized), handler |-> none]
    ELSE
        [status |-> 0, error |-> Null, pendingNonces |-> pendingNonces,
         handler |-> [kind |-> "verify", normalized |-> normalized,
                      nonceRecord |-> pendingNonces[normalized],
                      signature |-> signature]]

VerifyRequest(address, signature) ==
    LET r == VerifyRequestResult(address, signature) IN
    /\ pendingNonces' = r.pendingNonces
    /\ inflight' = IF r.status = 0 THEN inflight (+) SetToBag({r.handler}) ELSE inflight
    /\ UNCHANGED <<now, ticks, walletDirectory, userDirectory, activeTokens, nonceCount>>

\* Variant: the wallet record is built before the signature is looked at.
VerifyResumeResult_RecordFirst(h, validSignature) ==
    LET dir == buildWalletRecord(walletDirectory, h.normalized)
        payload == [address |-> Str(h.normalized),
                    linkedGoogleId |-> dir[h.normalized].googleId]
        same == [pendingNonces |-> pendingNonces, walletDirectory |-> dir,
                 activeTokens |-> activeTokens, token |-> Null]
    IN
    IF validSignature = "throw" THEN
        [status |-> 500, error |-> "Signature verification failed"] @@ same
    ELSE IF validSignature = "false" THEN
        [status |-> 401, error |-> "Signature verification failed"] @@ same
    ELSE
        [status |-> 200, error |-> Null,
         pendingNonces |-> DeleteNonce(pendingNonces, h.normalized),
         walletDirectory |-> dir,
         activeTokens |-> issueJwt(activeTokens, payload, now),
         token |-> issueJwtToken(payload, now)]
\* The handler from the resolution of verifyMessage to its response.
VerifyResumeResult(h, validSignature) ==
    LET same == [pendingNonces |-> pendingNonces, walletDirectory |-> walletDirectory,
                 activeTokens |-> activeTokens, token |-> Null]
    IN
    IF validSignature = "throw" THEN
        [status |-> 500, error |-> "Signature verification failed"] @@ same
    ELSE IF validSignature = "false" THEN
        [status |-> 401, error |-> "Signature verification failed"] @@ same
    ELSE
        LET dir == buildWalletRecord(walletDirectory, h.normalized)
            payload == [address |-> Str(h.normalized),
                        linkedGoogleId |-> dir[h.normalized].googleId]
        IN
        [status |-> 200, error |-> Null,
         pendingNonces |-> DeleteNonce(pendingNonces, h.normalized),
         walletDirectory |-> dir,
         activeTokens |-> issueJwt(activeTokens, payload, now),
         token |-> issueJwtToken(payload, now)]

VerifyResume(h, validSignature) ==
    LET r == VerifyResumeResult(h, validSignature) IN
    /\ h.kind = "verify"
    /\ BagIn(h, inflight)
    /\ validSignature \in verifyMessage(h.normalized, h.nonceRecord.message, h.signature)
    /\ inflight' = inflight (-) SetToBag({h})
    /\ pendingNonces' = r.pendingNonces
    /\ walletDirectory' = r.walletDirectory
    /\ activeTokens' = r.activeTokens
    /\ UNCHANGED <<now, ticks, userDirectory, nonceCount>>

(* -------------------------- authenticateRequest ----------------------- *)
\* Variant: the token's own signature and expiry are all that is checked.
authenticateRequest_NoRegistry(hdr) ==
    IF hdr = <<>> THEN
        [ok |-> FALSE, status |-> 401, error |-> "Authorization token missing",
         activeTokens |-> activeTokens, auth |-> Null]
    ELSE IF ~JwtVerify(hdr[1], JWT_SECRET, now) THEN
        [ok |-> FALSE, status |-> 401, error |-> "Invalid or expired token",
         activeTokens |-> activeTokens, auth |-> Null]
    ELSE
        [ok |-> TRUE, status |-> 200, error |-> Null,
         activeTokens |-> activeTokens, auth |-> hdr[1].claims]

\* ok: next() is called with req.auth = auth; otherwise the 401 response.
\* activeTokens: the registry after the middleware ran.
authenticateRequest(hdr) ==
    IF hdr = <<>> THEN
        [ok |-> FALSE, status |-> 401, error |-> "Authorization token missing",
         activeTokens |-> activeTokens, auth |-> Null]
    ELSE IF ~JwtVerify(hdr[1], JWT_SECRET, now) THEN
        [ok |-> FALSE, status |-> 401, error |-> "Invalid or expired token",
         activeTokens |-> activeTokens, auth |-> Null]
    ELSE IF ~MapHas(activeTokens, hdr[1]) THEN
        [ok |-> FALSE, status |-> 401, error |-> "Session has expired",
         activeTokens |-> MapDelete(activeTokens, hdr[1]), auth |-> Null]
    ELSE IF activeTokens[hdr[1]].expiresAt < now THEN
        [ok |-> FALSE, status |-> 401, error |-> "Session has expired",
         activeTokens |-> MapDelete(activeTokens, hdr[1]), auth |-> Null]
    ELSE
        [ok |-> TRUE, status |-> 200, error |-> Null,
         activeTokens |-> activeTokens, auth |-> hdr[1].claims]

(* --------------------------- GET /auth/profile ------------------------ *)
ProfileResult(hdr) ==
    LET a == authenticateRequest(hdr) IN
    IF ~a.ok THEN
        [status |-> a.status, error |-> a.error, activeTokens |-> a.activeTokens,
         walletDirectory |-> walletDirectory, body |-> Null]
    ELSE IF normalizeAddressThrows(a.auth.address) THEN
        [status |-> 500, error |-> "Invalid wallet address", activeTokens |-> a.activeTokens,
         walletDirectory |-> walletDirectory, body |-> Null]
    ELSE
        LET normalizedAddress == normalizeAddress(a.auth.address)
            dir == buildWalletRecord(walletDirectory, normalizedAddress)
            googleId == dir[normalizedAddress].googleId
            linkedWallets == IF googleId # Null /\ MapHas(userDirectory, googleId)
                                 THEN userDirectory[googleId].wallets
                                 ELSE <<normalizedAddress>>
        IN
        [status |-> 200, error |-> Null, activeTokens |-> a.activeTokens,
         walletDirectory |-> dir,
         body |-> [address |-> normalizedAddress, linkedGoogleId |-> googleId,
                   wallets |-> linkedWallets]]

Profile(hdr) ==
    LET r == ProfileResult(hdr) IN
    /\ activeTokens' = r.activeTokens
    /\ walletDirectory' = r.walletDirectory
    /\ UNCHANGED <<now, ticks, pendingNonces, userDirectory, nonceCount, inflight>>

(* --------------------------- POST /auth/logout ------------------------ *)
LogoutResult(hdr) ==
    LET a == authenticateRequest(hdr) IN
    IF ~a.ok THEN
        [status |-> a.status, error |-> a.error, activeTokens |-> a.activeTokens]
    ELSE
        [status |-> 200, error |-> Null, activeTokens |-> MapDelete(a.activeTokens, hdr[1])]

Logout(hdr) ==
    LET r == LogoutResult(hdr) IN
    /\ activeTokens' = r.activeTokens
    /\ UNCHANGED <<now, ticks, pendingNonces, walletDirectory, userDirectory,
                   nonceCount, inflight>>

(* ---------------------------- POST /auth/link ------------------------- *)
NullProfile == UserInfo(Null)
\* Variant: googleId ?? verifiedProfile?.sub
resolveGoogleId_ClientFirst(verifiedProfile, googleId) ==
    IF googleId # Null THEN googleId ELSE verifiedProfile.sub
\* verifiedProfile?.sub ?? googleId
resolveGoogleId(verifiedProfile, googleId) ==
    IF verifiedProfile.sub # Null THEN verifiedProfile.sub ELSE googleId

\* Variant: the claims carry the link the wallet had before.
LinkClaims_Before(normalizedAddress, resolvedGoogleId, walletRecord) ==
    [address |-> Str(normalizedAddress), linkedGoogleId |-> walletRecord.googleId]
\* { address: normalizedAddress, linkedGoogleId: resolvedGoogleId }
LinkClaims(normalizedAddress, resolvedGoogleId, walletRecord) ==
    [address |-> Str(normalizedAddress), linkedGoogleId |-> resolvedGoogleId]

\* The handler from the resolution of the identity to its response.
LinkResolve(auth, tokens, googleId, verifiedProfile) ==
    LET resolvedGoogleId == resolveGoogleId(verifiedProfile, googleId)
        same == [activeTokens |-> tokens, walletDirectory |-> walletDirectory,
                 userDirectory |-> userDirectory, body |-> Null]
    IN
    IF resolvedGoogleId = Null THEN
        [status |-> 400, error |-> "Google ID is required to link accounts"] @@ same
    ELSE IF normalizeAddressThrows(auth.address) THEN
        [status |-> 500, error |-> "Invalid wallet address"] @@ same
    ELSE
        LET normalizedAddress == normalizeAddress(auth.address)
            dir == buildWalletRecord(walletDirectory, normalizedAddress)
            walletRecord == dir[normalizedAddress]
        IN
        IF LinkConflict(walletRecord, resolvedGoogleId) THEN
            [status |-> 409, error |-> "Wallet already linked to a different Google account",
             activeTokens |-> tokens, walletDirectory |-> dir,
             userDirectory |-> userDirectory, body |-> Null]
        ELSE
            LET wallets == IF MapHas(userDirectory, resolvedGoogleId)
                               THEN userDirectory[resolvedGoogleId].wallets
                               ELSE <<>>
                userRecord == [googleId |-> resolvedGoogleId,
                               wallets |-> SetAdd(wallets, normalizedAddress)]
                payload == LinkClaims(normalizedAddress, resolvedGoogleId, walletRecord)
            IN
            [status |-> 200, error |-> Null,
             activeTokens |-> issueJwt(tokens, payload, now),
             walletDirectory |-> SetGoogleId(dir, normalizedAddress, resolvedGoogleId),
             userDirectory |-> MapSet(userDirectory, resolvedGoogleId, userRecord),
             body |-> [address |-> normalizedAddress, linkedGoogleId |-> resolvedGoogleId,
                       wallets |-> userRecord.wallets,
                       token |-> issueJwtToken(payload, now)]]

\* The handler up to its first await (verifyGoogleAccessToken) or to its response.
LinkRequestResult(hdr, googleId, googleAccessToken) ==
    LET a == authenticateRequest(hdr)
        none == [kind |-> "none"]
    IN
    IF ~a.ok THEN
        [status |-> a.status, error |-> a.error, activeTokens |-> a.activeTokens,
         walletDirectory |-> walletDirectory, userDirectory |-> userDirectory,
         body |-> Null, handler |-> none]
    ELSE IF googleAccessToken # Null THEN
        [status |-> 0, error |-> Null, activeTokens |-> a.activeTokens,
         walletDirectory |-> walletDirectory, userDirectory |-> userDirectory,
         body |-> Null,
         handler |-> [kind |-> "link", auth |-> a.auth, googleId |-> googleId,
                      googleAccessToken |-> googleAccessToken]]
    ELSE
        LinkResolve(a.auth, a.activeTokens, googleId, NullProfile) @@ [handler |-> none]

LinkRequest(hdr, googleId, googleAccessToken) ==
    LET r == LinkRequestResult(hdr, googleId, googleAccessToken) IN
    /\ activeTokens' = r.activeTokens
    /\ walletDirectory' = r.walletDirectory
    /\ userDirectory' = r.userDirectory
    /\ inflight' = IF r.status = 0 THEN inflight (+) SetToBag({r.handler}) ELSE inflight
    /\ UNCHANGED <<now, ticks, pendingNonces, nonceCount>>

\* The handler from the resolution of verifyGoogleAccessToken to its response.
LinkResumeResult(h, verified) ==
    IF ~verified.ok THEN
        [status |-> 401, error |-> "Invalid Google access token",
         activeTokens |-> activeTokens, walletDirectory |-> walletDirectory,
         userDirectory |-> userDirectory, body |-> Null]
    ELSE LinkResolve(h.auth, activeTokens, h.googleId, verified)

LinkResume(h, verified) ==
    LET r == LinkResumeResult(h, verified) IN
    /\ h.kind = "link"
    /\ BagIn(h, inflight)
    /\ verified \in verifyGoogleAccessToken(h.googleAccessToken)
    /\ inflight' = inflight (-) SetToBag({h})
    /\ activeTokens' = r.activeTokens
    /\ walletDirectory' = r.walletDirectory
    /\ userDirectory' = r.userDirectory
    /\ UNCHANGED <<now, ticks, pendingNonces, nonceCount>>

(* ------------------------------- sweep -------------------------------- *)
\* Variant: an entry is evicted at its expiry time already.
SweepMap_Inclusive(m, t) == [k \in {x \in DOMAIN m : ~(m[x].expiresAt <= t)} |-> m[k]]
\* for (const [key, record] of map.entries()) if (record.expiresAt < now) map.delete(key)
SweepMap(m, t) == [k \in {x \in DOMAIN m : ~(m[x].expiresAt < t)} |-> m[k]]

\* Variant: the loop over the sessions is left out.
Sweep_ChallengesOnly ==
    /\ pendingNonces' = SweepMap(pendingNonces, now)
    /\ UNCHANGED <<now, ticks, walletDirectory, userDirectory, activeTokens,
                   nonceCount, inflight>>
\* setInterval(() => { ... }, 60 * 1000)
Sweep ==
    /\ pendingNonces' = SweepMap(pendingNonces, now)
    /\ activeTokens' = SweepMap(activeTokens, now)
    /\ UNCHANGED <<now, ticks, walletDirectory, userDirectory, nonceCount, inflight>>

(* ------------------------------- clock -------------------------------- *)
Tick(d) ==
    /\ ticks < MaxTicks
    /\ ticks' = ticks + 1
    /\ now' = now + d
    /\ UNCHANGED <<pendingNonces, walletDirectory, userDirectory, activeTokens,
                   nonceCount, inflight>>

(* ------------------ credential store: request values ----------------- *)
PASSWORD_MIN_LENGTH == 10
OTP_TTL_MS == 10 * 60 * 1000
OTP_MAX_ATTEMPTS == 5

\* Emails, as their characters.
E1 == <<"a", "@", "x">>
E2 == <<"b", "@", "x">>
RawEmails == {E1, <<"A", "@", "x">>, E2, <<"a">>}
\* z.string().email(): no blank, and an @ with something on both sides.
isEmail(email) ==
    /\ \A i \in 1..Len(email) : email[i] # " "
    /\ \E i \in 2..(Len(email) - 1) : email[i] = "@"

RECURSIVE trimStart(_)
trimStart(str) == IF str # <<>> /\ Head(str) = " " THEN trimStart(Tail(str)) ELSE str
RECURSIVE trimEnd(_)
trimEnd(str) ==
    IF str # <<>> /\ str[Len(str)] = " " THEN trimEnd(SubSeq(str, 1, Len(str) - 1)) ELSE str
\* email.trim().toLowerCase()
normalizeEmail(email) == toLowerCase(trimEnd(trimStart(email)))

\* Phones, as their characters.
P1 == <<"1", "2", "3", "4", "5", "6", "7", "8">>
P2 == <<"8", "7", "6", "5", "4", "3", "2", "1">>
RawPhones ==
    { P1, <<"+", "1", "2", "3", "4", " ", "5", "6", "7", "8">>, P2,
      <<"1", "2", "3", "4", "5", "6">>, <<"1">> }
IsDigit(c) == c \in {"0", "1", "2", "3", "4", "5", "6", "7", "8", "9"}
\* phone.replaceAll(/\D/g, '')
normalizePhone(phone) == SelectSeq(phone, IsDigit)
\* The schema's bounds on the phone as sent.
PhoneSchemaOk(phone) == Len(phone) >= 6 /\ Len(phone) <= 32
\* normalizedPhone.length < 8 || normalizedPhone.length > 15
PhoneDigitsBad(normalizedPhone) == Len(normalizedPhone) < 8 \/ Len(normalizedPhone) > 15

OldPassword == "Sup3rSecret!"
NewPassword == "NewPass!2345"
Passwords == {OldPassword, NewPassword, "short"}

\* argon2.hash and argon2.verify (the salt is left out).
argon2hash(plain) == [argon2id |-> plain]
argon2verify(hash, plain) == hash.argon2id = plain

InvalidInput == "Invalid input payload"
BadPhoneDigits == "Phone number must contain between 8 and 15 digits."
NoHandler == [kind |-> "none"]

(* ----------------------- POST /auth/register/email -------------------- *)
\* The accounts that hold a phone: where('phone', '==', normalizedPhone).
AccountsWithPhone(phone) == {e \in DOMAIN users : users[e].phone = phone}

\* The handler up to its first await (the email read) or to its response.
\* conflictAtArrival (history): a record with its email or its phone was
\* already stored when the request arrived.
RegisterRequestResult(email, password, phone) ==
    IF ~isEmail(email) \/ Len(password) < PASSWORD_MIN_LENGTH \/ ~PhoneSchemaOk(phone) THEN
        [status |-> 400, error |-> InvalidInput, handler |-> NoHandler]
    ELSE IF PhoneDigitsBad(normalizePhone(phone)) THEN
        [status |-> 400, error |-> BadPhoneDigits, handler |-> NoHandler]
    ELSE
        [status |-> 0, error |-> Null,
         handler |-> [kind |-> "register", pc |-> "get",
                      email |-> normalizeEmail(email),
                      phone |-> normalizePhone(phone),
                      password |-> password,
                      conflictAtArrival |->
                          \/ MapHas(users, normalizeEmail(email))
                          \/ AccountsWithPhone(normalizePhone(phone)) # {}]]

RegisterRequest(email, password, phone) ==
    LET r == RegisterRequestResult(email, password, phone) IN
    /\ inflight' = IF r.status = 0 THEN inflight (+) SetToBag({r.handler}) ELSE inflight
    /\ UNCHANGED <<now, ticks, wallet, activeTokens, users, otps, otpCount>>

\* Variant: userDocRef.create, which fails when the document exists.
StoreCredential_IfAbsent(store, email, record) ==
    IF MapHas(store, email) THEN store ELSE MapSet(store, email, record)
\* userDocRef.set(...)
StoreCredential(store, email, record) == MapSet(store, email, record)

\* Variant: the phone query finds nothing.
PhoneCollision_Never(phone) == FALSE
\* !phoneCollision.empty
PhoneCollision(phone) == AccountsWithPhone(phone) # {}

\* The handler from the resolution of the await it is suspended at (pc) to
\* its next await (next) or to its response (status).  pc "get": the email
\* read; "where": the phone query; "hash": argon2.hash; "set": the write.
RegisterStepResult(h) ==
    IF h.pc = "get" THEN
        IF MapHas(users, h.email) THEN
            [status |-> 409, error |-> "Email is already registered.",
             users |-> users, next |-> NoHandler]
        ELSE [status |-> 0, error |-> Null, users |-> users,
              next |-> [h EXCEPT !.pc = "where"]]
    ELSE IF h.pc = "where" THEN
        IF PhoneCollision(h.phone) THEN
            [status |-> 409,
             error |-> "Phone number is already associated with another account.",
             users |-> users, next |-> NoHandler]
        ELSE [status |-> 0, error |-> Null, users |-> users,
              next |-> [h EXCEPT !.pc = "hash"]]
    ELSE IF h.pc = "hash" THEN
        [status |-> 0, error |-> Null, users |-> users, next |-> [h EXCEPT !.pc = "set"]]
    ELSE
        [status |-> 201, error |-> Null,
         users |-> StoreCredential(users, h.email,
                                   [passwordHash |-> argon2hash(h.password),
                                    phone |-> h.phone, lastLoginAt |-> Null]),
         next |-> NoHandler]

\* A suspended handler moves on: to its next await or out of the bag.
Advance(h, r) ==
    inflight' = IF r.status = 0 THEN (inflight (-) SetToBag({h})) (+) SetToBag({r.next})
                ELSE inflight (-) SetToBag({h})

RegisterStep(h) ==
    LET r == RegisterStepResult(h) IN
    /\ h.kind = "register"
    /\ BagIn(h, inflight)
    /\ Advance(h, r)
    /\ users' = r.users
    /\ UNCHANGED <<now, ticks, wallet, activeTokens, otps, otpCount>>

(* ------------------------- POST /auth/login/email --------------------- *)
\* Variant: a missing account is told apart.
UnknownAccount_Reveals == [status |-> 404, error |-> "No account found."]
\* userDoc.exists is false
UnknownAccount == [status |-> 401, error |-> "Invalid email or password."]
\* passwordMatches is false
WrongPassword == [status |-> 401, error |-> "Invalid email or password."]

LoginRequestResult(email, password) ==
    IF ~isEmail(email) \/ Len(password) < 1 THEN
        [status |-> 400, error |-> InvalidInput, handler |-> NoHandler]
    ELSE
        [status |-> 0, error |-> Null,
         handler |-> [kind |-> "login", pc |-> "get", email |-> normalizeEmail(email),
                      password |-> password, userData |-> Null]]

LoginRequest(email, password) ==
    LET r == LoginRequestResult(email, password) IN
    /\ inflight' = IF r.status = 0 THEN inflight (+) SetToBag({r.handler}) ELSE inflight
    /\ UNCHANGED <<now, ticks, wallet, activeTokens, users, otps, otpCount>>

\* The handler from the resolution of the await it is suspended at to its
\* next await or to its response.  pc "get": the account read; "verify":
\* argon2.verify against the hash that was read; "update": the lastLoginAt
\* write, after which the token is issued.
LoginStepResult(h) ==
    LET same == [activeTokens |-> activeTokens, token |-> Null, users |-> users] IN
    IF h.pc = "get" THEN
        IF ~MapHas(users, h.email) THEN UnknownAccount @@ same @@ [next |-> NoHandler]
        ELSE [status |-> 0, error |-> Null,
              next |-> [h EXCEPT !.pc = "verify", !.userData = users[h.email]]] @@ same
    ELSE IF h.pc = "verify" THEN
        IF ~argon2verify(h.userData.passwordHash, h.password)
            THEN WrongPassword @@ same @@ [next |-> NoHandler]
        ELSE [status |-> 0, error |-> Null, next |-> [h EXCEPT !.pc = "update"]] @@ same
    ELSE
        LET payload == [authType |-> "email-password", email |-> h.email,
                        phone |-> h.userData.phone]
        IN
        [status |-> 200, error |-> Null, next |-> NoHandler,
         users |-> [users EXCEPT ![h.email].lastLoginAt = now],
         activeTokens |-> issueJwt(activeTokens, payload, now),
         token |-> issueJwtToken(payload, now)]

LoginStep(h) ==
    LET r == LoginStepResult(h) IN
    /\ h.kind = "login"
    /\ BagIn(h, inflight)
    /\ Advance(h, r)
    /\ activeTokens' = r.activeTokens
    /\ users' = r.users
    /\ UNCHANGED <<now, ticks, wallet, otps, otpCount>>

(* --------------------- POST /auth/password/request-otp ---------------- *)
\* One-time codes: the n-th code drawn is n; 0 is a well-formed code that
\* was never drawn; ShortOtp does not have six characters.
ShortOtp == -1
OtpInputs == (0..otpCount) \cup {ShortOtp}
NoAccountForPhone == "No account found for the provided phone number."

RequestOtpRequestResult(phone) ==
    IF ~PhoneSchemaOk(phone) THEN
        [status |-> 400, error |-> InvalidInput, handler |-> NoHandler]
    ELSE IF PhoneDigitsBad(normalizePhone(phone)) THEN
        [status |-> 400, error |-> BadPhoneDigits, handler |-> NoHandler]
    ELSE
        [status |-> 0, error |-> Null,
         handler |-> [kind |-> "requestOtp", pc |-> "where",
                      phone |-> normalizePhone(phone), email |-> <<>>, otpCode |-> 0,
                      expiresAt |-> 0]]

RequestOtpRequest(phone) ==
    LET r == RequestOtpRequestResult(phone) IN
    /\ inflight' = IF r.status = 0 THEN inflight (+) SetToBag({r.handler}) ELSE inflight
    /\ UNCHANGED <<now, ticks, wallet, activeTokens, users, otps, otpCount>>

\* What the query with limit(1) may return: nothing, or any one of the
\* accounts with the phone.
EmptySnapshot == [empty |-> TRUE]
FirstDocs(phone) ==
    IF AccountsWithPhone(phone) = {} THEN {EmptySnapshot}
    ELSE {[empty |-> FALSE, id |-> e] : e \in AccountsWithPhone(phone)}

\* The challenge request-otp stores.
OtpRecord(email, otpCode, expiresAt) ==
    [email |-> email, otpHash |-> argon2hash(otpCode), attempts |-> 0,
     expiresAt |-> expiresAt]

\* Variant: a challenge is stored only where there is none.
StoreOtp_IfAbsent(store, phone, record) ==
    IF MapHas(store, phone) THEN store ELSE MapSet(store, phone, record)
\* firestore.collection(OTP_COLLECTION).doc(normalizedPhone).set(...)
StoreOtp(store, phone, record) == MapSet(store, phone, record)

\* The handler from the resolution of the await it is suspended at to its
\* next await or to its response.  pc "where": the phone query, after which
\* the code is drawn; "hash": argon2.hash of the code, after which the
\* expiry is computed; "set": the write of the challenge.
RequestOtpStepResult(h, userSnapshot) ==
    IF h.pc = "where" THEN
        IF userSnapshot.empty THEN
            [status |-> 404, error |-> NoAccountForPhone, otps |-> otps,
             otpCount |-> otpCount, next |-> NoHandler]
        ELSE
            [status |-> 0, error |-> Null, otps |-> otps, otpCount |-> otpCount + 1,
             next |-> [h EXCEPT !.pc = "hash", !.email = userSnapshot.id,
                                !.otpCode = otpCount + 1]]
    ELSE IF h.pc = "hash" THEN
        [status |-> 0, error |-> Null, otps |-> otps, otpCount |-> otpCount,
         next |-> [h EXCEPT !.pc = "set", !.expiresAt = now + OTP_TTL_MS]]
    ELSE
        [status |-> 200, error |-> Null, otpCount |-> otpCount, next |-> NoHandler,
         otps |-> StoreOtp(otps, h.phone, OtpRecord(h.email, h.otpCode, h.expiresAt))]

RequestOtpStep(h, userSnapshot) ==
    LET r == RequestOtpStepResult(h, userSnapshot) IN
    /\ h.kind = "requestOtp"
    /\ BagIn(h, inflight)
    /\ userSnapshot \in FirstDocs(h.phone)
    /\ Advance(h, r)
    /\ otps' = r.otps
    /\ otpCount' = r.otpCount
    /\ UNCHANGED <<now, ticks, wallet, activeTokens, users>>

(* ----------------------- POST /auth/password/reset -------------------- *)
OtpInvalidOrExpired == "OTP is invalid or has expired."
OtpExpired == "OTP expired. Request a new code."
TooManyAttempts == "Too many invalid attempts. Request a new OTP."
InvalidOtp == "Invalid OTP code."

ResetRequestResult(phone, otp, newPassword) ==
    IF ~PhoneSchemaOk(phone) \/ otp = ShortOtp \/ Len(newPassword) < PASSWORD_MIN_LENGTH THEN
        [status |-> 400, error |-> InvalidInput, handler |-> NoHandler]
    ELSE IF PhoneDigitsBad(normalizePhone(phone)) THEN
        [status |-> 400, error |-> BadPhoneDigits, handler |-> NoHandler]
    ELSE
        [status |-> 0, error |-> Null,
         handler |-> [kind |-> "reset", pc |-> "get", phone |-> normalizePhone(phone),
                      otp |-> otp, newPassword |-> newPassword, otpData |-> Null]]

ResetRequest(phone, otp, newPassword) ==
    LET r == ResetRequestResult(phone, otp, newPassword) IN
    /\ inflight' = IF r.status = 0 THEN inflight (+) SetToBag({r.handler}) ELSE inflight
    /\ UNCHANGED <<now, ticks, wallet, activeTokens, users, otps, otpCount>>

\* Variant: the attempts are not counted against the limit.
AttemptsExhausted_Never(attempts) == FALSE
\* attempts >= OTP_MAX_ATTEMPTS
AttemptsExhausted(attempts) == attempts >= OTP_MAX_ATTEMPTS

\* Variant: the expiry comparison is left out.
OtpPastExpiry_Never(otpData, t) == FALSE
\* otpData.expiresAt < Date.now()
OtpPastExpiry(otpData, t) == otpData.expiresAt < t

\* Variant: a used challenge stays in the store.
DeleteOtp_Skipped(store, phone) == store
\* otpDocRef.delete()
DeleteOtp(store, phone) == MapDelete(store, phone)

\* Variant: the new password is not written.
UpdatePassword_Skipped(store, email, newPassword) == store
\* userDocRef.update({passwordHash: newPasswordHash})
UpdatePassword(store, email, newPassword) ==
    [store EXCEPT ![email].passwordHash = argon2hash(newPassword)]

\* The handler from the resolution of the await it is suspended at to its
\* next await or to its response.  pc "get": the challenge read, followed by
\* the attempts and expiry tests on what was read; "deleteTooMany",
\* "deleteExpired", "deleteNoAccount", "delete": a delete of the challenge
\* document; "verify": argon2.verify of the code against the hash that was
\* read; "updateAttempts": the write of attempts + 1, which fails when the
\* document is gone; "getUser": the account read; "hash": argon2.hash of
\* the new password; "update": the password write.
ResetStepResult(h) ==
    LET same == [users |-> users, otps |-> otps]
        to(pc) == [status |-> 0, error |-> Null, next |-> [h EXCEPT !.pc = pc]] @@ same
        done(status, error) == [status |-> status, error |-> error, next |-> NoHandler]
    IN
    CASE h.pc = "get" ->
            IF ~MapHas(otps, h.phone) THEN done(400, OtpInvalidOrExpired) @@ same
            ELSE LET otpData == otps[h.phone]
                     read == [h EXCEPT !.otpData = otpData]
                 IN
                 [status |-> 0, error |-> Null,
                  next |-> IF AttemptsExhausted(otpData.attempts)
                               THEN [read EXCEPT !.pc = "deleteTooMany"]
                           ELSE IF OtpPastExpiry(otpData, now)
                               THEN [read EXCEPT !.pc = "deleteExpired"]
                           ELSE [read EXCEPT !.pc = "verify"]] @@ same
      [] h.pc = "deleteTooMany" ->
            done(429, TooManyAttempts) @@ [users |-> users, otps |-> DeleteOtp(otps, h.phone)]
      [] h.pc = "deleteExpired" ->
            done(400, OtpExpired) @@ [users |-> users, otps |-> DeleteOtp(otps, h.phone)]
      [] h.pc = "verify" ->
            IF ~argon2verify(h.otpData.otpHash, h.otp) THEN to("updateAttempts")
            ELSE to("getUser")
      [] h.pc = "updateAttempts" ->
            IF ~MapHas(otps, h.phone) THEN done(500, "Failed to reset password.") @@ same
            ELSE done(401, InvalidOtp)
                     @@ [users |-> users,
                         otps |-> [otps EXCEPT ![h.phone].attempts = h.otpData.attempts + 1]]
      [] h.pc = "getUser" ->
            IF ~MapHas(users, h.otpData.email) THEN to("deleteNoAccount") ELSE to("hash")
      [] h.pc = "deleteNoAccount" ->
            done(404, "Account record not found.")
                @@ [users |-> users, otps |-> DeleteOtp(otps, h.phone)]
      [] h.pc = "hash" -> to("update")
      [] h.pc = "update" ->
            IF ~MapHas(users, h.otpData.email) THEN done(500, "Failed to reset password.") @@ same
            ELSE [status |-> 0, error |-> Null, next |-> [h EXCEPT !.pc = "delete"],
                  users |-> UpdatePassword(users, h.otpData.email, h.newPassword),
                  otps |-> otps]
      [] OTHER ->
            done(200, Null) @@ [users |-> users, otps |-> DeleteOtp(otps, h.phone)]

ResetStep(h) ==
    LET r == ResetStepResult(h) IN
    /\ h.kind = "reset"
    /\ BagIn(h, inflight)
    /\ Advance(h, r)
    /\ users' = r.users
    /\ otps' = r.otps
    /\ UNCHANGED <<now, ticks, wallet, activeTokens, otpCount>>

(* ------------------------------ rateLimit ----------------------------- *)
\* The limiter of src/server/index.js, as its routes mount it.
windowMs == 60000
Ips == {"ip1", "ip2"}
Paths == {"/auth/verify", "/auth/link"}
RouteLimit(path) ==
    CASE path = "/auth/nonce" -> 30
      [] path = "/auth/verify" -> 20
      [] path = "/auth/link" -> 20
      [] path = "/auth/profile" -> 60
\* `${req.ip}:${req.path}`
keyBase(ip, path) == <<ip, path>>

\* now > bucket.reset
WindowOver(t, reset) == t > reset
\* Variant: the request that reaches the limit is already rejected.
OverLimit_Early(count, limit) == count >= limit
\* bucket.count > limit
OverLimit(count, limit) == count > limit

\* The bucket of a key once the middleware has counted a request at time t.
Counted(buckets, key, t) ==
    LET found == IF MapHas(buckets, key) THEN buckets[key]
                 ELSE [count |-> 0, reset |-> t + windowMs]
        current == IF WindowOver(t, found.reset)
                       THEN [count |-> 0, reset |-> t + windowMs]
                       ELSE found
    IN [current EXCEPT !.count = @ + 1]

\* The middleware for one request: the buckets it leaves, and whether it
\* calls next() or answers 429.
RateLimitResult(ip, path) ==
    LET bucket == Counted(rateBuckets, keyBase(ip, path), now)
        over == OverLimit(bucket.count, RouteLimit(path))
    IN
    [rateBuckets |-> MapSet(rateBuckets, keyBase(ip, path), bucket),
     status |-> IF over THEN 429 ELSE 0,
     error |-> IF over THEN "Too many requests. Please try again later." ELSE Null,
     next |-> ~over]

RateLimit(ip, path) ==
    /\ rateBuckets' = RateLimitResult(ip, path).rateBuckets
    /\ UNCHANGED <<now, ticks, server, chain, client>>

(* ------------------------ FractalRecipeRegistry ----------------------- *)
\* 0.01 ether, in thousandths of an ether.
LIFETIME_MEMBERSHIP_PRICE == 10
ZeroAddress == "0x0"
DishNames == {"", "Dal"}
MetadataURIs == {"", "ipfs://dal"}
\* msg.value of a purchase: nothing, just below, at and above the price.
Values == {0, LIFETIME_MEMBERSHIP_PRICE - 1, LIFETIME_MEMBERSHIP_PRICE,
           LIFETIME_MEMBERSHIP_PRICE + 1}

\* modifier onlyLifetimeMember, on the source that has it.
onlyLifetimeMember(sender) ==
    deployed = GatedSource => sender \in lifetimeMembers

Reverted(error) ==
    [reverted |-> TRUE, error |-> error, recipes |-> recipes,
     lifetimeMembers |-> lifetimeMembers, balance |-> balance]
Done(rs, members, bal) ==
    [reverted |-> FALSE, error |-> Null, recipes |-> rs,
     lifetimeMembers |-> members, balance |-> bal]

storeRecipeResult(sender, dishName, metadataURI) ==
    IF ~onlyLifetimeMember(sender) THEN Reverted("Membership required")
    ELSE IF dishName = "" THEN Reverted("Dish required")
    ELSE IF metadataURI = "" THEN Reverted("Metadata required")
    ELSE Done(Append(recipes, [creator |-> sender, dishName |-> dishName,
                               metadataURI |-> metadataURI,
                               createdAt |-> now \div 1000]),
              lifetimeMembers, balance)

\* The source without the membership has no such function and no fallback:
\* the call reverts.
purchaseLifetimeMembershipResult(sender, value) ==
    IF deployed # GatedSource THEN Reverted("no such function")
    ELSE IF sender \in lifetimeMembers THEN Reverted("Already a lifetime member")
    ELSE IF ~(value >= LIFETIME_MEMBERSHIP_PRICE) THEN Reverted("Insufficient payment")
    ELSE Done(recipes, lifetimeMembers \cup {sender}, balance + value)

withdrawResult(sender, recipient) ==
    IF deployed # GatedSource THEN Reverted("no such function")
    ELSE IF sender # Deployer THEN Reverted("Only owner")
    ELSE IF recipient = ZeroAddress THEN Reverted("Invalid recipient")
    ELSE IF ~(balance > 0) THEN Reverted("Nothing to withdraw")
    ELSE Done(recipes, lifetimeMembers, 0)

\* A transaction: the state its call leaves, which is the state before it
\* when the call reverts.
Transact(r) ==
    /\ recipes' = r.recipes
    /\ lifetimeMembers' = r.lifetimeMembers
    /\ balance' = r.balance
    /\ UNCHANGED <<deployed, now, ticks, server, limiter, client>>

storeRecipe(sender, dishName, metadataURI) ==
    Transact(storeRecipeResult(sender, dishName, metadataURI))
purchaseLifetimeMembership(sender, value) ==
    Transact(purchaseLifetimeMembershipResult(sender, value))
withdraw(sender, recipient) ==
    Transact(withdrawResult(sender, recipient))

(* ----------------------------- specifications ------------------------ *)
LinkBodies == {Null} \cup GoogleIds
LinkAccessTokens == {Null} \cup AccessTokens
ProviderAnswers == {Threw} \cup {UserInfo(g) : g \in GoogleIds}
SignatureAnswers == {"true", "false", "throw"}

\* Room for one more handler of this kind, and for the session it may issue.
Suspended(kind) == {h \in BagToSet(inflight) : h.kind = kind}
Room == Cardinality(DOMAIN activeTokens) + BagCardinality(inflight) < MaxSessions
Admit(kind, max) ==
    BagCardinality([h \in Suspended(kind) |-> inflight[h]]) < max /\ Room

\* History of the challenges, kept by the specification that reasons about
\* them.  Per nonce: the address it was issued for, when, how many
\* verifications it has carried to a 200, and whether a verification for its
\* address has succeeded since it was issued.
LogNonce(address) ==
    nonceLog' = IF nonceCount' # nonceCount
                    THEN Append(nonceLog, [address |-> normalizeAddress(address),
                                           issuedAt |-> now, successes |-> 0,
                                           spent |-> FALSE])
                    ELSE nonceLog
LogSuccess(h, validSignature) ==
    nonceLog' = IF validSignature = "true"
                    THEN [n \in 1..Len(nonceLog) |->
                            [nonceLog[n] EXCEPT
                               !.successes = IF n = h.nonceRecord.nonce THEN @ + 1 ELSE @,
                               !.spent = @ \/ nonceLog[n].address = h.normalized]]
                    ELSE nonceLog
\* History of the logouts: kept by the specification that reasons about them.
LogRevoked(hdr) ==
    /\ revoked' = IF LogoutResult(hdr).status = 200 THEN revoked \cup {hdr[1]} ELSE revoked
    /\ Cardinality(revoked') <= MaxRevoked

\* The challenge store and the signature check, with concurrent verifications.
NextChallenge ==
    \/ \E address \in RawAddresses :
          /\ nonceCount < MaxChallenges
          /\ Nonce(address) /\ LogNonce(address) /\ UNCHANGED <<revoked, cred, apart>>
    \/ \E address \in RawAddresses, signature \in SigInputs :
          /\ VerifyRequestResult(address, signature).status = 0 => Admit("verify", MaxVerifying)
          /\ VerifyRequest(address, signature)
          /\ UNCHANGED <<nonceLog, revoked, cred, apart>>
    \/ \E h \in BagToSet(inflight), v \in SignatureAnswers :
          VerifyResume(h, v) /\ LogSuccess(h, v) /\ UNCHANGED <<revoked, cred, apart>>
    \/ Sweep /\ UNCHANGED <<nonceLog, revoked, cred, apart>>
    \/ \E d \in ClockSteps : Tick(d) /\ UNCHANGED <<nonceLog, revoked, cred, apart>>

SpecChallenge == Init /\ [][NextChallenge]_vars

\* Logins from the given addresses, one verification in flight at a time.
Login(addresses) ==
    \/ \E address \in addresses : nonceCount < MaxNonces /\ Nonce(address)
    \/ \E address \in addresses, signature \in SigInputs :
          /\ VerifyRequestResult(address, signature).status = 0 => Admit("verify", MaxSuspended)
          /\ VerifyRequest(address, signature)
    \/ \E h \in BagToSet(inflight), v \in SignatureAnswers : VerifyResume(h, v)

\* What one wallet's client may send as its address.
OneWallet == RawAddresses \ Spellings(W2)

\* The session registry: one wallet logging in and out.
NextSession ==
    \/ Login(OneWallet) /\ UNCHANGED <<nonceLog, revoked, cred, apart>>
    \/ \E hdr \in Headers : Profile(hdr) /\ UNCHANGED <<nonceLog, revoked, cred, apart>>
    \/ \E hdr \in Headers : Logout(hdr) /\ LogRevoked(hdr) /\ UNCHANGED <<nonceLog, cred, apart>>
    \/ Sweep /\ UNCHANGED <<nonceLog, revoked, cred, apart>>
    \/ \E d \in ClockSteps : Tick(d) /\ UNCHANGED <<nonceLog, revoked, cred, apart>>

SpecSession == Init /\ [][NextSession]_vars

\* The whole wallet flow: login, link, profile, logout, sweep and the clock.
Next ==
    \/ Login(RawAddresses) /\ UNCHANGED <<nonceLog, revoked, cred, apart>>
    \/ \E hdr \in Headers : Profile(hdr) /\ UNCHANGED <<nonceLog, revoked, cred, apart>>
    \/ \E hdr \in Headers : Logout(hdr) /\ UNCHANGED <<nonceLog, revoked, cred, apart>>
    \/ \E hdr \in Headers :
          \* the body is read only once authenticateRequest has called next()
          \E g \in (IF authenticateRequest(hdr).ok THEN LinkBodies ELSE {Null}),
             at \in (IF authenticateRequest(hdr).ok THEN LinkAccessTokens ELSE {Null}) :
                /\ LinkRequestResult(hdr, g, at).status = 0 => Admit("link", MaxSuspended)
                /\ LinkRequestResult(hdr, g, at).status = 200 => Room
                /\ LinkRequest(hdr, g, at)
                /\ UNCHANGED <<nonceLog, revoked, cred, apart>>
    \/ \E h \in BagToSet(inflight), p \in ProviderAnswers :
          LinkResume(h, p) /\ UNCHANGED <<nonceLog, revoked, cred, apart>>
    \/ Sweep /\ UNCHANGED <<nonceLog, revoked, cred, apart>>
    \/ \E d \in ClockSteps : Tick(d) /\ UNCHANGED <<nonceLog, revoked, cred, apart>>

Spec == Init /\ [][Next]_vars

\* The clock of the sweep: to the expiry of a challenge, just past it, and
\* just past the expiry of a session.
SweepClockSteps == {NONCE_TTL_MS, NONCE_TTL_MS + 1, TOKEN_TTL_SECONDS * 1000 + 1}

\* The sweep among logins and links, with entries that expire.
NextSweep ==
    \/ Login(RawAddresses) /\ UNCHANGED <<nonceLog, revoked, cred, apart>>
    \/ \E hdr \in Headers :
          \E g \in (IF authenticateRequest(hdr).ok THEN LinkBodies ELSE {Null}),
             at \in (IF authenticateRequest(hdr).ok THEN LinkAccessTokens ELSE {Null}) :
                /\ LinkRequestResult(hdr, g, at).status = 0 => Admit("link", MaxSuspended)
                /\ LinkRequestResult(hdr, g, at).status = 200 => Room
                /\ LinkRequest(hdr, g, at)
                /\ UNCHANGED <<nonceLog, revoked, cred, apart>>
    \/ \E h \in BagToSet(inflight), p \in ProviderAnswers :
          LinkResume(h, p) /\ UNCHANGED <<nonceLog, revoked, cred, apart>>
    \/ Sweep /\ UNCHANGED <<nonceLog, revoked, cred, apart>>
    \/ \E d \in SweepClockSteps : Tick(d) /\ UNCHANGED <<nonceLog, revoked, cred, apart>>

SpecSweep == Init /\ [][NextSweep]_vars

\* The sweep among the logins and the authenticated requests of one wallet.
NextSweepRace ==
    \/ Login(OneWallet) /\ UNCHANGED <<nonceLog, revoked, cred, apart>>
    \/ \E hdr \in Headers : Profile(hdr) /\ UNCHANGED <<nonceLog, revoked, cred, apart>>
    \/ Sweep /\ UNCHANGED <<nonceLog, revoked, cred, apart>>
    \/ \E d \in SweepClockSteps : Tick(d) /\ UNCHANGED <<nonceLog, revoked, cred, apart>>

SpecSweepRace == Init /\ [][NextSweepRace]_vars

\* The same with the timer of the sweep: setInterval fires again and again,
\* so a sweep that would evict something does run.
SweepStep == Sweep /\ UNCHANGED <<nonceLog, revoked, cred, apart>>
SpecEviction == Init /\ [][NextSweepRace]_vars /\ WF_vars(SweepStep)

\* What a client may send as an address, one that is too short included.
TooShort == Str(<<"0", "x">>)
AddressInputs == RawAddresses \cup {TooShort}

\* Logins with any address.
NextAddress ==
    \/ Login(AddressInputs) /\ UNCHANGED <<nonceLog, revoked, cred, apart>>
    \/ \E d \in ClockSteps : Tick(d) /\ UNCHANGED <<nonceLog, revoked, cred, apart>>

SpecAddress == Init /\ [][NextAddress]_vars

\* Requests served one after the other: a request arrives when no handler
\* is suspended.
Idle == inflight = EmptyBag

Registers(max, emails, passwords, phones) ==
    \/ \E email \in emails, password \in passwords, phone \in phones :
          /\ RegisterRequestResult(email, password, phone).status = 0
                 => BagCardinality(inflight) < max
          /\ RegisterRequest(email, password, phone)
    \/ \E h \in BagToSet(inflight) : RegisterStep(h)

Logins(emails) ==
    \/ \E email \in emails, password \in Passwords :
          /\ LoginRequestResult(email, password).status = 0
                 => Idle /\ Cardinality(DOMAIN activeTokens) < MaxLogins
          /\ LoginRequest(email, password)
    \/ \E h \in BagToSet(inflight) : LoginStep(h)

\* Accounts: registrations and password logins, one request at a time.
NextAccount ==
    \/ Registers(1, RawEmails, Passwords, RawPhones) /\ UNCHANGED <<otpLog, apart>>
    \/ Logins(RawEmails) /\ UNCHANGED <<otpLog, apart>>
    \/ \E d \in ClockSteps : Tick(d) /\ UNCHANGED <<nonceLog, revoked, cred, apart>>

SpecAccount == Init /\ [][NextAccount]_vars

\* Registrations that overlap.
NextRegisterRace ==
    Registers(MaxRegistering, RawEmails, Passwords, RawPhones) /\ UNCHANGED <<otpLog, apart>>

SpecRegisterRace == Init /\ [][NextRegisterRace]_vars

\* History of the one-time codes, kept by the specifications that reason
\* about them.  Per code: its phone and account, when it was drawn, how
\* many codes were checked against its challenge (argon2.verify), how many
\* of them were answered 401, how many resets it carried to a 200, and the
\* password the last reset with it has written.
LogOtp(h, userSnapshot) ==
    otpLog' = IF otpCount' # otpCount
                  THEN Append(otpLog, [phone |-> h.phone, email |-> userSnapshot.id,
                                       drawnAt |-> now, checked |-> 0,
                                       wrong |-> 0, resets |-> 0, newPassword |-> Null])
                  ELSE otpLog
CodeOf(otpData) == otpData.otpHash.argon2id
LogReset(h) ==
    otpLog' = IF h.pc = "verify"
                  THEN [otpLog EXCEPT ![CodeOf(h.otpData)].checked = @ + 1]
              ELSE IF ResetStepResult(h).status = 401
                  THEN [otpLog EXCEPT ![CodeOf(h.otpData)].wrong = @ + 1]
              ELSE IF h.pc = "update" /\ ResetStepResult(h).status = 0
                  THEN [otpLog EXCEPT ![CodeOf(h.otpData)].newPassword = h.newPassword]
              ELSE IF ResetStepResult(h).status = 200
                  THEN [otpLog EXCEPT ![CodeOf(h.otpData)].resets = @ + 1]
              ELSE otpLog

\* The clock of the reset flow: to the expiry of a challenge and past it.
OtpClockSteps == {OTP_TTL_MS, TOKEN_TTL_SECONDS * 1000}

RequestOtps(max, codes) ==
    \/ \E phone \in RawPhones :
          /\ RequestOtpRequestResult(phone).status = 0
                 => BagCardinality(inflight) < max /\ otpCount < codes
          /\ RequestOtpRequest(phone)
          /\ UNCHANGED <<otpLog, apart>>
    \/ \E h \in BagToSet(inflight) :
          \E userSnapshot \in
                 (IF h.kind = "requestOtp" THEN FirstDocs(h.phone) ELSE {EmptySnapshot}) :
              RequestOtpStep(h, userSnapshot) /\ LogOtp(h, userSnapshot) /\ UNCHANGED apart

Resets(max) ==
    \/ \E phone \in RawPhones, otp \in OtpInputs, newPassword \in Passwords :
          /\ ResetRequestResult(phone, otp, newPassword).status = 0
                 => BagCardinality(inflight) < max
          /\ ResetRequest(phone, otp, newPassword)
          /\ UNCHANGED <<otpLog, apart>>
    \/ \E h \in BagToSet(inflight) : ResetStep(h) /\ LogReset(h) /\ UNCHANGED apart

\* One account: what its owner may send to register it.
OneAccount == Registers(1, {E1}, {OldPassword}, RawPhones \ {P2})

\* The password reset flow of one account, one request at a time.
NextReset ==
    \/ OneAccount /\ UNCHANGED <<otpLog, apart>>
    \/ Logins({E1}) /\ UNCHANGED <<otpLog, apart>>
    \/ RequestOtps(1, MaxOtps)
    \/ Resets(1)
    \/ \E d \in OtpClockSteps : Tick(d) /\ UNCHANGED <<nonceLog, revoked, cred, apart>>

SpecReset == Init /\ [][NextReset]_vars

\* Resets that overlap.
NextResetRace ==
    \/ OneAccount /\ UNCHANGED <<otpLog, apart>>
    \/ RequestOtps(1, MaxOtps)
    \/ Resets(MaxResetting)

SpecResetRace == Init /\ [][NextResetRace]_vars

\* A challenge requested again while a reset is suspended.
NextResetReplace ==
    \/ OneAccount /\ UNCHANGED <<otpLog, apart>>
    \/ RequestOtps(MaxResetting, MaxReissues)
    \/ Resets(1)

SpecResetReplace == Init /\ [][NextResetReplace]_vars

\* Challenges requested again, one request at a time.
NextReissue ==
    \/ OneAccount /\ UNCHANGED <<otpLog, apart>>
    \/ RequestOtps(1, MaxReissues)
    \/ Resets(1)
    \/ \E d \in OtpClockSteps : Tick(d) /\ UNCHANGED <<nonceLog, revoked, cred, apart>>

SpecReissue == Init /\ [][NextReissue]_vars

\* History of the limiter, kept by the specification that reasons about
\* it.  Per key: when the window it is in was opened by a request, how many
\* requests have arrived in it and how many of them were passed on.  A
\* window covers the times up to windowMs after it was opened.
LogWindow(ip, path) ==
    LET key == keyBase(ip, path)
        passed == IF RateLimitResult(ip, path).next THEN 1 ELSE 0
        fresh == ~MapHas(windowLog, key) \/ now > windowLog[key].opened + windowMs
    IN
    windowLog' =
        MapSet(windowLog, key,
               IF fresh THEN [opened |-> now, arrived |-> 1, passed |-> passed]
               ELSE [windowLog[key] EXCEPT !.arrived = @ + 1, !.passed = @ + passed])

\* The clock of the limiter: to the end of a window and past it.
RateClockSteps == {windowMs, windowMs + 1}

\* Who sends what: one client uses two routes, another client one of them.
Senders == (Ips \X Paths) \ {<<"ip2", "/auth/link">>}

\* The rate limiter under the requests of two clients.
NextRateLimit ==
    \/ \E ip \in Ips, path \in Paths :
          /\ <<ip, path>> \in Senders
          /\ RateLimitResult(ip, path).rateBuckets[keyBase(ip, path)].count
                 <= RouteLimit(path) + MaxOverLimit
          /\ RateLimit(ip, path)
          /\ LogWindow(ip, path)
    \/ \E d \in RateClockSteps : Tick(d) /\ UNCHANGED <<nonceLog, revoked, cred, apart>>

SpecRateLimit == Init /\ [][NextRateLimit]_vars

\* The contract on its chain, deployed from either of its sources.
InitRegistry == InitServers /\ InitClient /\ \E source \in Sources : Constructor(source)

NextRegistry ==
    \/ \E sender \in Accounts, dishName \in DishNames, metadataURI \in MetadataURIs :
          /\ Len(recipes) < MaxRecipes
          /\ storeRecipe(sender, dishName, metadataURI)
    \/ \E sender \in Accounts, value \in Values :
          purchaseLifetimeMembership(sender, value)
    \/ \E sender \in Accounts, recipient \in Accounts \cup {ZeroAddress} :
          withdraw(sender, recipient)
    \/ \E d \in ClockSteps : Tick(d) /\ UNCHANGED <<nonceLog, revoked, cred, apart>>

SpecRegistry == InitRegistry /\ [][NextRegistry]_vars

(* ------------------------ the challenge store ------------------------- *)
NotFound == "Nonce not found. Request a new one."
Expired == "Nonce expired. Request a new one."

Issued == 1..Len(nonceLog)
\* The nonces issued for an address, and the last of them.
IssuedFor(a) == {n \in Issued : nonceLog[n].address = a}
Latest(n) == \A m \in IssuedFor(nonceLog[n].address) : m <= n
\* A verification for the address has succeeded and no /auth/nonce for it
\* has been served since.
Consumed(a) == IssuedFor(a) # {} /\ \A n \in IssuedFor(a) : nonceLog[n].spent
\* The correct signature: the wallet's own, over the message of nonce n.
CorrectSignature(n) == Sign(nonceLog[n].address, Message(n))

\* C1 (nonce single-use).  Once a /auth/verify for address a has succeeded
\* and no /auth/nonce for a has been served since, a further /auth/verify
\* for a, with the signature that succeeded or with any other, in any
\* spelling of a, is answered 400 "Nonce not found": no handler is started,
\* so no session is issued, and the store is left as it is.
C1_NonceSingleUse ==
    \A a \in Wallets :
        Consumed(a) =>
            \A raw \in Spellings(a), signature \in SigInputs \ {EmptySig} :
                LET r == VerifyRequestResult(raw, signature) IN
                /\ r.status = 400
                /\ r.error = NotFound
                /\ r.handler.kind = "none"
                /\ r.pendingNonces = pendingNonces

\* C1's case: a challenge has carried a verification to a 200 and the same
\* signature over the same message can be presented again.
C1_Witness ==
    \E n \in Issued :
        /\ nonceLog[n].successes >= 1
        /\ Consumed(nonceLog[n].address)
        /\ CorrectSignature(n) \in SigInputs

\* C2 (one attempt per challenge).  When a /auth/verify handler that found
\* a stored challenge has answered, whatever the outcome of the signature
\* check, that challenge is no longer in the store.
C2_OneAttemptPerChallenge ==
    [][\A h \in BagToSet(inflight) :
          (h.kind = "verify" /\ inflight' = inflight (-) SetToBag({h}))
              => ~(/\ MapHas(pendingNonces', h.normalized)
                   /\ pendingNonces'[h.normalized].nonce = h.nonceRecord.nonce)]_vars

\* C3 (atomic consumption).  Over every interleaving of /auth/verify
\* requests, one issued challenge carries at most one request to a 200.
C3_AtMostOneSuccess ==
    \A n \in Issued : nonceLog[n].successes <= 1

\* A challenge that was never consumed and whose five minutes have passed.
Late(n) ==
    /\ Latest(n)
    /\ ~nonceLog[n].spent
    /\ now > nonceLog[n].issuedAt + NONCE_TTL_MS
Stored(n) ==
    /\ MapHas(pendingNonces, nonceLog[n].address)
    /\ pendingNonces[nonceLog[n].address].nonce = n

SignatureAndExpiryPass(hdr) == hdr # <<>> /\ JwtVerify(hdr[1], JWT_SECRET, now)
Registered(hdr) == hdr # <<>> /\ MapHas(activeTokens, hdr[1])
EntryNotExpired(hdr) == Registered(hdr) /\ ~(activeTokens[hdr[1]].expiresAt < now)

\* The protected handlers did not run: the answer is the middleware's 401
\* and nothing but the middleware's own eviction of the presented token
\* has changed.
Rejected(hdr) ==
    LET evicted == IF hdr = <<>> THEN activeTokens ELSE MapDelete(activeTokens, hdr[1]) IN
    /\ LET r == ProfileResult(hdr) IN
          /\ r.status = 401 /\ r.body = Null
          /\ r.walletDirectory = walletDirectory
          /\ r.activeTokens \in {activeTokens, evicted}
    /\ LET r == LogoutResult(hdr) IN
          /\ r.status = 401
          /\ r.activeTokens \in {activeTokens, evicted}
    /\ \A g \in LinkBodies, at \in LinkAccessTokens :
          LET r == LinkRequestResult(hdr, g, at) IN
          /\ r.status = 401 /\ r.body = Null /\ r.handler.kind = "none"
          /\ r.walletDirectory = walletDirectory
          /\ r.userDirectory = userDirectory
          /\ r.activeTokens \in {activeTokens, evicted}

\* C5 (session validity).  authenticateRequest accepts a bearer token only
\* if its signature and expiry check passes, the token string is in the
\* registry and the registry entry has not expired; a token failing any of
\* the three is answered 401 and the protected handler does not run.
C5_SessionValidity ==
    \A hdr \in Headers :
        LET a == authenticateRequest(hdr) IN
        /\ a.ok => SignatureAndExpiryPass(hdr) /\ Registered(hdr) /\ EntryNotExpired(hdr)
        /\ ~(SignatureAndExpiryPass(hdr) /\ Registered(hdr) /\ EntryNotExpired(hdr))
              => ~a.ok /\ a.status = 401 /\ Rejected(hdr)

\* C5's case: a token that passes the signature and expiry check but is no
\* longer in the registry, next to one that is accepted.
C5_Witness ==
    /\ \E t \in revoked : SignatureAndExpiryPass(<<t>>) /\ ~Registered(<<t>>)
    /\ \E hdr \in Headers : authenticateRequest(hdr).ok

\* C6 (session lifecycle).  A token that /auth/logout has removed is
\* rejected by every later authenticated request.
C6_RevokedStaysRejected ==
    \A t \in revoked : ~authenticateRequest(<<t>>).ok

(* ------------------------- the identity linker ------------------------ *)
\* The wallet of an accepted session, and the identity it is linked to.
WalletOf(auth) == normalizeAddress(auth.address)
LinkedTo(w) == IF MapHas(walletDirectory, w) THEN walletDirectory[w].googleId ELSE Null
WalletSet(dir, g) == IF MapHas(dir, g) THEN Range(dir[g].wallets) ELSE {}

\* The response leaves the identities and the registry as they are.
NothingLinked(r) ==
    /\ r.walletDirectory = walletDirectory
    /\ r.userDirectory = userDirectory
    /\ r.activeTokens = activeTokens
    /\ r.body = Null

\* C7 (linking conflict).  For a wallet linked to G1, a /auth/link that
\* resolves to another identity, from the request body or from the
\* provider's answer, is answered 409; the wallet record, every identity's
\* wallet set and the registry stay as they are and no token is returned.
C7_LinkConflict ==
    /\ \A hdr \in Headers, g \in GoogleIds :
          LET a == authenticateRequest(hdr) IN
          (a.ok /\ LinkedTo(WalletOf(a.auth)) \notin {Null, g}) =>
              LET r == LinkRequestResult(hdr, g, Null) IN
              r.status = 409 /\ NothingLinked(r)
    /\ \A h \in Suspended("link"), g \in GoogleIds :
          LinkedTo(WalletOf(h.auth)) \notin {Null, g} =>
              LET r == LinkResumeResult(h, UserInfo(g)) IN
              r.status = 409 /\ NothingLinked(r)

\* C7's case: a linked wallet holds a session with which it can ask for
\* another identity.
C7_Witness ==
    \E hdr \in Headers :
        /\ authenticateRequest(hdr).ok
        /\ LinkedTo(WalletOf(authenticateRequest(hdr).auth)) = "G1"
        /\ LinkRequestResult(hdr, "G2", Null).status = 409

\* C8 (link consistency).  A wallet is in the wallet set of identity G
\* exactly when its wallet record is linked to G; so no wallet is in two
\* wallet sets.
C8_LinkConsistency ==
    /\ \A w \in Wallets, g \in GoogleIds :
          (w \in WalletSet(userDirectory, g)) <=> (LinkedTo(w) = g)
    /\ \A w \in Wallets :
          Cardinality({g \in DOMAIN userDirectory : w \in WalletSet(userDirectory, g)}) <= 1
    /\ \A g \in DOMAIN userDirectory : WalletSet(userDirectory, g) \subseteq Wallets

\* C8's case: two identities, each with a wallet linked to it.
C8_Witness ==
    /\ WalletSet(userDirectory, "G1") # {}
    /\ WalletSet(userDirectory, "G2") # {}

\* Both wallets are linked to identity g.
BothLinked(g) == \A w \in Wallets : LinkedTo(w) = g

\* C9 (many wallets, one identity).  When W1 and W2 are both linked to G,
\* /auth/profile for any accepted session reports the wallet set {W1, W2}
\* and linkedGoogleId = G.
C9_ManyWalletsOneIdentity ==
    \A g \in GoogleIds, hdr \in Headers :
        (BothLinked(g) /\ authenticateRequest(hdr).ok) =>
            LET r == ProfileResult(hdr) IN
            /\ r.status = 200
            /\ r.body.address = WalletOf(authenticateRequest(hdr).auth)
            /\ r.body.linkedGoogleId = g
            /\ Range(r.body.wallets) = {W1, W2}
            /\ Len(r.body.wallets) = 2

\* C9's case: both wallets have linked to the same identity and each holds
\* an accepted session.
C9_Witness ==
    /\ \E g \in GoogleIds : BothLinked(g)
    /\ \A w \in Wallets :
          \E hdr \in Headers :
              /\ authenticateRequest(hdr).ok
              /\ WalletOf(authenticateRequest(hdr).auth) = w

\* The identities other than g, and the wallets other than w, are as before.
OnlyLinks(r, w, g) ==
    /\ \A g2 \in GoogleIds \ {g} : WalletSet(r.userDirectory, g2) = WalletSet(userDirectory, g2)
    /\ \A w2 \in DOMAIN walletDirectory \ {w} : r.walletDirectory[w2] = walletDirectory[w2]
    /\ r.walletDirectory[w].googleId = g
    /\ w \in WalletSet(r.userDirectory, g)
    /\ r.body.linkedGoogleId = g

Provable == {GoogleSub(at) : at \in AccessTokens} \ {Null}

\* C11 (no client-asserted identity).  A wallet is only ever linked to an id
\* the server derived from a successful token introspection: a /auth/link
\* that carries a googleId and no access token links nothing, and no wallet
\* is linked to an id nobody can prove.
C11_NoClientAssertedIdentity ==
    /\ \A hdr \in Headers, g \in GoogleIds :
          authenticateRequest(hdr).ok => LinkRequestResult(hdr, g, Null).status # 200
    /\ \A w \in Wallets : LinkedTo(w) \in {Null} \cup Provable

(* ------------------------ the credential store ------------------------ *)
Registering == Suspended("register")
\* What a register leaves of the store when it runs on from where it is.
Untouched(h) == RegisterStepResult(h).users = users

\* C12 (credential uniqueness, sequential).  With requests served one after
\* the other, a register that arrives when a record already holds its
\* normalized email or its normalized phone answers 409 and leaves the
\* store as it was: it never gets past the email read and the phone query.
C12_CredentialUniqueness ==
    \A h \in Registering :
        h.conflictAtArrival =>
            /\ Untouched(h)
            /\ \/ RegisterStepResult(h).status = 409
               \/ /\ h.pc = "get"
                  /\ RegisterStepResult(h).next.pc = "where"
                  /\ AccountsWithPhone(h.phone) # {}

\* C12's case: a second register reuses the phone of an account under
\* another email, and its phone query is about to answer.
C12_Witness ==
    \E h \in Registering :
        /\ h.pc = "where"
        /\ ~MapHas(users, h.email)
        /\ \E e \in DOMAIN users : users[e].phone = h.phone
        /\ RegisterStepResult(h).status = 409

UniquePhones ==
    \A e1, e2 \in DOMAIN users : users[e1].phone = users[e2].phone => e1 = e2
InsertIfAbsent ==
    \A h \in Registering :
        RegisterStep(h) /\ RegisterStepResult(h).status = 201 => ~MapHas(users, h.email)

\* C13 (credential uniqueness under concurrency).  Whatever the
\* interleaving of registers, no two records hold the same phone, and a
\* register that answers 201 writes a record only where none was.
C13_UniqueUnderConcurrency == [](UniquePhones) /\ [][InsertIfAbsent]_vars

\* The response of a login that runs from arrival to its answer with no
\* other request in between, and what it leaves of the store and registry.
LoginRun(email, password) ==
    LET r0 == LoginRequestResult(email, password)
        r1 == LoginStepResult(r0.handler)
        r2 == LoginStepResult(r1.next)
        r3 == LoginStepResult(r2.next)
        out(r) == [status |-> r.status, error |-> r.error, token |-> r.token,
                   users |-> r.users, activeTokens |-> r.activeTokens]
    IN
    IF r0.status # 0 THEN [status |-> r0.status, error |-> r0.error, token |-> Null,
                           users |-> users, activeTokens |-> activeTokens]
    ELSE IF r1.status # 0 THEN out(r1)
    ELSE IF r2.status # 0 THEN out(r2)
    ELSE out(r3)
WellFormedLogin(email) == isEmail(email)
NoAccount(email) == ~MapHas(users, normalizeEmail(email))
WrongPasswordFor(email, password) ==
    /\ MapHas(users, normalizeEmail(email))
    /\ ~argon2verify(users[normalizeEmail(email)].passwordHash, password)

\* C14 (no account enumeration on login).  A login for an email with no
\* account and a login with a wrong password for an email that has one get
\* the same status and body, and neither changes the credential store or
\* the session registry.
C14_NoAccountEnumeration ==
    \A e1 \in RawEmails, e2 \in RawEmails :
        \A p1 \in Passwords, p2 \in Passwords :
            /\ WellFormedLogin(e1) /\ NoAccount(e1)
            /\ WellFormedLogin(e2) /\ WrongPasswordFor(e2, p2)
            => /\ LoginRun(e1, p1).status = LoginRun(e2, p2).status
               /\ LoginRun(e1, p1).error = LoginRun(e2, p2).error
               /\ LoginRun(e1, p1).users = users
               /\ LoginRun(e2, p2).users = users
               /\ LoginRun(e1, p1).activeTokens = activeTokens
               /\ LoginRun(e2, p2).activeTokens = activeTokens

\* C14's case: one account exists and another email has none, and a login
\* with a wrong password for the first is about to be answered.
C14_Witness ==
    /\ \E e \in RawEmails : WellFormedLogin(e) /\ NoAccount(e)
    /\ \E h \in Suspended("login") :
          /\ h.pc = "verify"
          /\ WrongPasswordFor(h.email, h.password)
          /\ LoginStepResult(h).status = 401

(* --------------------------- the reset flow --------------------------- *)
\* The response of a reset that runs from arrival to its answer with no
\* other request in between, and what it leaves of the store.  Only the
\* password write changes the accounts and only the last store operation
\* of a path changes the challenges.
ResetRun(phone, otp, newPassword) ==
    LET r0 == ResetRequestResult(phone, otp, newPassword)
        r1 == ResetStepResult(r0.handler)
        r2 == ResetStepResult(r1.next)
        r3 == ResetStepResult(r2.next)
        r4 == ResetStepResult(r3.next)
        r5 == ResetStepResult(r4.next)
        r6 == ResetStepResult(r5.next)
        out(r) == [status |-> r.status, error |-> r.error, users |-> r.users, otps |-> r.otps]
    IN
    IF r0.status # 0 THEN [status |-> r0.status, error |-> r0.error,
                           users |-> users, otps |-> otps]
    ELSE IF r1.status # 0 THEN out(r1)
    ELSE IF r2.status # 0 THEN out(r2)
    ELSE IF r3.status # 0 THEN out(r3)
    ELSE IF r4.status # 0 THEN out(r4)
    ELSE IF r5.status # 0 THEN out(r5)
    ELSE [status |-> r6.status, error |-> r6.error, users |-> r5.users, otps |-> r6.otps]

Codes == 1..Len(otpLog)
\* The codes drawn for a phone; the last of them belongs to the challenge
\* that is outstanding, if any is.
CodesFor(phone) == {c \in Codes : otpLog[c].phone = phone}
LatestCode(c) == \A d \in CodesFor(otpLog[c].phone) : d <= c
Outstanding(c) ==
    MapHas(otps, otpLog[c].phone) /\ CodeOf(otps[otpLog[c].phone]) = c
\* The well-formed resets for a phone: any spelling of the phone, any code
\* of six characters, any password that is long enough.
SpellingsOfPhone(phone) ==
    {raw \in RawPhones : PhoneSchemaOk(raw) /\ normalizePhone(raw) = phone}
SixCharCodes == OtpInputs \ {ShortOtp}
LongPasswords == {pw \in Passwords : Len(pw) >= PASSWORD_MIN_LENGTH}
\* Every well-formed reset for the phone of code c answers as answer says.
EveryReset(c, answer(_)) ==
    \A raw \in SpellingsOfPhone(otpLog[c].phone) :
        \A otp \in SixCharCodes, pw \in LongPasswords : answer(ResetRun(raw, otp, pw))

\* C15 (OTP attempt limit).  With requests served one after the other, once
\* five wrong codes have been answered against an outstanding challenge,
\* the next reset for the phone - whatever its code, the correct one
\* included - answers 429, leaves the password as it is and deletes the
\* challenge; and with the challenge gone and no new code drawn, no reset
\* for the phone succeeds.
C15_AttemptLimit ==
    \A c \in Codes :
        otpLog[c].wrong >= OTP_MAX_ATTEMPTS /\ LatestCode(c) =>
            IF Outstanding(c)
                THEN LET TooMany(r) == /\ r.status = 429
                                       /\ r.error = TooManyAttempts
                                       /\ r.users = users
                                       /\ ~MapHas(r.otps, otpLog[c].phone)
                     IN EveryReset(c, TooMany)
                ELSE LET Fails(r) == r.status # 200 /\ r.users = users
                     IN EveryReset(c, Fails)

\* C15's case: after five wrong codes, a sixth reset carries the right
\* code, has read the challenge and is about to delete it and answer 429.
C15_Witness ==
    \E c \in Codes, h \in Suspended("reset") :
        /\ otpLog[c].wrong = OTP_MAX_ATTEMPTS
        /\ h.otp = c
        /\ h.pc = "deleteTooMany"
        /\ ResetStepResult(h).status = 429

\* C17 (OTP single success).  With requests served one after the other,
\* once a reset with the correct code has succeeded and no new code has
\* been drawn for the phone, the challenge is gone, the code has carried
\* exactly one reset, and a further reset with it answers 400 "invalid or
\* expired" and leaves the password as it is.
C17_SingleSuccess ==
    \A c \in Codes :
        otpLog[c].resets >= 1 /\ LatestCode(c) =>
            /\ otpLog[c].resets = 1
            /\ ~MapHas(otps, otpLog[c].phone)
            /\ \A raw \in SpellingsOfPhone(otpLog[c].phone), pw \in LongPasswords :
                  LET r == ResetRun(raw, c, pw) IN
                  /\ r.status = 400
                  /\ r.error = OtpInvalidOrExpired
                  /\ r.users = users

\* C17's case: the code that has carried a reset is submitted again, and
\* the challenge read is about to answer.
C17_Witness ==
    \E c \in Codes, h \in Suspended("reset") :
        /\ otpLog[c].resets = 1
        /\ h.otp = c
        /\ h.phone = otpLog[c].phone
        /\ h.pc = "get"
        /\ ResetStepResult(h).status = 400

\* The code has carried a reset to its 200, and no reset with a later code
\* of the account has written a password.
LastReset(c) ==
    /\ otpLog[c].resets >= 1
    /\ \A d \in Codes :
          otpLog[d].email = otpLog[c].email /\ otpLog[d].newPassword # Null => d <= c

\* C18 (password reset takes effect).  With requests served one after the
\* other, after a successful reset to password N the account's login
\* succeeds with N, returning a registered session token, and answers 401
\* with any other password, the old one included; and a reset that does
\* not answer 200 leaves every stored password hash as it is.
C18_ResetTakesEffect ==
    /\ \A c \in Codes :
          LastReset(c) =>
              \A pw \in Passwords :
                  LET r == LoginRun(otpLog[c].email, pw) IN
                  IF pw = otpLog[c].newPassword
                      THEN r.status = 200 /\ MapHas(r.activeTokens, r.token)
                      ELSE r.status = 401 /\ r.activeTokens = activeTokens
    /\ \A raw \in RawPhones, otp \in OtpInputs, pw \in Passwords :
          LET r == ResetRun(raw, otp, pw) IN
          r.status # 200 => r.users = users

\* C18's case: the account registered with the old password has been reset
\* to the new one, and a login with the new password is about to be
\* answered.
C18_Witness ==
    \E c \in Codes, h \in Suspended("login") :
        /\ LastReset(c)
        /\ otpLog[c].newPassword = NewPassword
        /\ h.email = otpLog[c].email
        /\ h.password = NewPassword
        /\ h.pc = "update"
        /\ LoginStepResult(h).status = 200
        /\ LoginRun(h.email, OldPassword).status = 401

\* C19 (OTP expiry).  A reset for a phone whose challenge has expired
\* answers 400 "expired" whatever the attempts counter and the code,
\* leaves the password as it is and deletes the challenge.
C19_ExpiredWhateverTheCounter ==
    \A c \in Codes :
        Outstanding(c) /\ otps[otpLog[c].phone].expiresAt < now =>
            LET IsExpired(r) == /\ r.status = 400
                                /\ r.error = OtpExpired
                                /\ r.users = users
                                /\ ~MapHas(r.otps, otpLog[c].phone)
            IN EveryReset(c, IsExpired)

\* The stored counter of a challenge does not go down.
AttemptsMonotone ==
    \A phone \in DOMAIN otps \cap DOMAIN otps' :
        otps'[phone].otpHash = otps[phone].otpHash
            => otps'[phone].attempts >= otps[phone].attempts
\* A reset that answers 401 leaves the stored counter one higher.
FailureCountsOnce ==
    \A h \in Suspended("reset") :
        ResetStep(h) /\ ResetStepResult(h).status = 401
            => otps'[h.phone].attempts = otps[h.phone].attempts + 1
AtMostMaxChecked == \A c \in Codes : otpLog[c].checked <= OTP_MAX_ATTEMPTS

\* C16 (OTP attempt counter under concurrency).  Whatever the interleaving
\* of resets, the stored attempts counter of a challenge never decreases,
\* every failed verification raises it by exactly one, and no challenge
\* has more than OTP_MAX_ATTEMPTS codes checked against it.
C16_AttemptCounter ==
    /\ [][AttemptsMonotone]_vars
    /\ [][FailureCountsOnce]_vars
    /\ [](AtMostMaxChecked)

\* The request-otp handlers that are about to write their challenge.
Storing == {h \in Suspended("requestOtp") : h.pc = "set"}

\* C20 (request-otp replaces the outstanding challenge).  With requests
\* served one after the other: a request-otp for the phone of an account
\* stores, under the normalized phone, a challenge for its new code with
\* attempts 0 and an expiry OTP_TTL_MS after the code was hashed, in the
\* place of any challenge stored there; once it is stored, no earlier code
\* of the phone resets the password; and a request-otp for a phone of no
\* account answers 404 and stores nothing.
C20_RequestOtpReplaces ==
    /\ \A h \in Storing :
          LET stored == RequestOtpStepResult(h, EmptySnapshot).otps IN
          /\ h.phone = normalizePhone(h.phone)
          /\ DOMAIN stored = DOMAIN otps \cup {h.phone}
          /\ CodeOf(stored[h.phone]) = h.otpCode
          /\ LatestCode(h.otpCode)
          /\ stored[h.phone].attempts = 0
          /\ stored[h.phone].expiresAt >= otpLog[h.otpCode].drawnAt + OTP_TTL_MS
          /\ stored[h.phone].expiresAt <= now + OTP_TTL_MS
    /\ \A c \in Codes :
          Outstanding(c) =>
              \A earlier \in CodesFor(otpLog[c].phone) \ {c} :
                  \A raw \in SpellingsOfPhone(otpLog[c].phone), pw \in LongPasswords :
                      /\ ResetRun(raw, earlier, pw).status # 200
                      /\ ResetRun(raw, earlier, pw).users = users
    /\ \A raw \in RawPhones :
          LET r == RequestOtpRequestResult(raw) IN
          r.status = 0 /\ AccountsWithPhone(normalizePhone(raw)) = {} =>
              \A userSnapshot \in FirstDocs(normalizePhone(raw)) :
                  /\ RequestOtpStepResult(r.handler, userSnapshot).status = 404
                  /\ RequestOtpStepResult(r.handler, userSnapshot).otps = otps

\* C20's case: a second request-otp is about to write its challenge over
\* one that has already counted a wrong code.
C20_Witness ==
    \E h \in Storing :
        /\ MapHas(otps, h.phone)
        /\ CodeOf(otps[h.phone]) < h.otpCode
        /\ otps[h.phone].attempts > 0
        /\ RequestOtpStepResult(h, EmptySnapshot).status = 200

(* --------------------------- the rate limiter ------------------------- *)
Least(a, b) == IF a <= b THEN a ELSE b
WindowElapsed(key) == MapHas(windowLog, key) /\ now > windowLog[key].opened + windowMs

\* C21 (fixed-window rate limit).  In every window of every key the
\* requests passed to the handler are exactly the first `limit` ones, and
\* the middleware answers 429 exactly when it does not call next(); the
\* first request after a key's window has elapsed is passed on with the
\* counter at 1; and a request changes no other key's bucket.
C21_FixedWindow ==
    /\ \A ip \in Ips, path \in Paths :
          MapHas(windowLog, keyBase(ip, path)) =>
              windowLog[keyBase(ip, path)].passed
                  = Least(windowLog[keyBase(ip, path)].arrived, RouteLimit(path))
    /\ \A ip \in Ips, path \in Paths :
          LET r == RateLimitResult(ip, path)
              key == keyBase(ip, path)
          IN
          /\ r.next <=> r.status # 429
          /\ WindowElapsed(key) => r.next /\ r.rateBuckets[key].count = 1
          /\ DOMAIN r.rateBuckets = DOMAIN rateBuckets \cup {key}
          /\ \A other \in DOMAIN rateBuckets \ {key} : r.rateBuckets[other] = rateBuckets[other]

\* C21's case: one key has had a request rejected in its window while
\* another key is still below its limit.
C21_Witness ==
    \E ip \in Ips, path \in Paths :
        /\ MapHas(windowLog, keyBase(ip, path))
        /\ windowLog[keyBase(ip, path)].arrived > RouteLimit(path)
        /\ RateLimitResult(ip, path).status = 429
        /\ \E other \in DOMAIN rateBuckets \ {keyBase(ip, path)} :
              rateBuckets[other].count < 20

(* ------------------------- the signature check ------------------------ *)
\* C22 (signature check fails closed).  A /auth/verify with a stored,
\* unexpired challenge and a signature the library cannot parse ends as a
\* failed verification: 401, never 500, with no session and no wallet
\* record created.
C22_FailsClosed ==
    \A h \in Suspended("verify") :
        h.signature.kind = "malformed" =>
            \A v \in verifyMessage(h.normalized, h.nonceRecord.message, h.signature) :
                LET r == VerifyResumeResult(h, v) IN
                /\ r.status = 401
                /\ r.activeTokens = activeTokens
                /\ r.walletDirectory = walletDirectory

(* ------------------------------ the sweep ----------------------------- *)
\* After a step, a map holds exactly its entries that had not expired,
\* each as it was.
KeptUnexpired(before, after) ==
    /\ DOMAIN after = {k \in DOMAIN before : before[k].expiresAt >= now}
    /\ \A k \in DOMAIN after : after[k] = before[k]

\* C23 (the sweep evicts exactly the expired entries).  A run of the sweep
\* removes every challenge and every session entry whose expiresAt is
\* earlier than the clock, keeps every other one as it is, and changes no
\* wallet record and no user record.
C23_SweepEvictsExpired ==
    [][Sweep => /\ KeptUnexpired(pendingNonces, pendingNonces')
                /\ KeptUnexpired(activeTokens, activeTokens')
                /\ walletDirectory' = walletDirectory
                /\ userDirectory' = userDirectory]_vars

\* C23's case: the sweep runs where a challenge has expired next to the
\* unexpired session of a linked wallet.
C23_Witness ==
    /\ \E a \in DOMAIN pendingNonces : pendingNonces[a].expiresAt < now
    /\ \E t \in DOMAIN activeTokens : activeTokens[t].expiresAt >= now
    /\ \E w \in DOMAIN walletDirectory : walletDirectory[w].googleId # Null
    /\ userDirectory # EmptyMap
    /\ ENABLED Sweep

(* ----------------------------- the profile ---------------------------- *)
\* C24 (profile is a read-only projection).  For every valid wallet
\* session GET /auth/profile answers 200 and leaves the session registry
\* and the wallet directory as they are (it creates no wallet record; the
\* handler writes to no other store), and for a wallet with no link the
\* body is the address, linkedGoogleId null and wallets = [address].
C24_ProfileReadOnly ==
    \A hdr \in Headers :
        authenticateRequest(hdr).ok =>
            LET r == ProfileResult(hdr)
                address == normalizeAddress(authenticateRequest(hdr).auth.address)
            IN
            /\ r.status = 200
            /\ r.activeTokens = activeTokens
            /\ r.walletDirectory = walletDirectory
            /\ r.body.address = address
            /\ walletDirectory[address].googleId = Null =>
                   r.body = [address |-> address, linkedGoogleId |-> Null,
                             wallets |-> <<address>>]

\* C24's case: a valid session of a wallet with no link next to one of a
\* linked wallet, the profile of each being served.
C24_Witness ==
    /\ \E hdr \in Headers :
          /\ authenticateRequest(hdr).ok
          /\ ProfileResult(hdr).status = 200
          /\ ProfileResult(hdr).body.linkedGoogleId = Null
    /\ \E hdr \in Headers :
          /\ authenticateRequest(hdr).ok
          /\ ProfileResult(hdr).status = 200
          /\ ProfileResult(hdr).body.linkedGoogleId # Null

(* ------------------------- address validation ------------------------- *)
\* The length of an address, the addresses here being "0x" and one digit.
AddressLength == Len(W1)
WellFormedAddress(chars) == startsWith0x(toLowerCase(chars)) /\ Len(chars) = AddressLength
Malformed(address) == address.type # "string" \/ ~WellFormedAddress(address.chars)

\* C25 (address validation).  /auth/nonce and /auth/verify answer 400 to
\* an address without the prefix or of another length than the fixed one
\* and store nothing for it, and every key of the challenge store and of
\* the wallet directory is a well-formed address.
C25_AddressValidation ==
    /\ \A address \in AddressInputs :
          Malformed(address) =>
              /\ NonceResult(address).status = 400
              /\ NonceResult(address).pendingNonces = pendingNonces
              /\ \A signature \in SigInputs :
                    /\ VerifyRequestResult(address, signature).status = 400
                    /\ VerifyRequestResult(address, signature).pendingNonces = pendingNonces
    /\ \A a \in DOMAIN pendingNonces \cup DOMAIN walletDirectory : WellFormedAddress(a)

(* -------------------------- challenge overwrite ----------------------- *)
\* The message of the challenge now stored for an address.
LatestMessage(a) == pendingNonces[a].message

\* C26 (challenge overwrite).  Once a later /auth/nonce has replaced the
\* challenge of an address, only a signature over the latest message
\* succeeds: a /auth/verify that arrives with a signature over another
\* message does not end in 200, and a /auth/verify that completes with 200
\* carries a signature over the message now stored for its address.
C26_OnlyLatestVerifies ==
    /\ \A address \in RawAddresses, signature \in SigInputs :
          LET r == VerifyRequestResult(address, signature) IN
          (r.status = 0 /\ signature.message # LatestMessage(r.handler.normalized)) =>
              \A v \in verifyMessage(r.handler.normalized, r.handler.nonceRecord.message,
                                     signature) :
                  VerifyResumeResult(r.handler, v).status # 200
    /\ \A h \in Suspended("verify") :
          \A v \in verifyMessage(h.normalized, h.nonceRecord.message, h.signature) :
              (MapHas(pendingNonces, h.normalized) /\ VerifyResumeResult(h, v).status = 200)
                  => h.signature.message = LatestMessage(h.normalized)

(* ------------------------ the session of a link ----------------------- *)
\* The responses /auth/link can give now: to a request that arrives, and to
\* a handler that resumes from the provider.
LinkResponses ==
    { [auth |-> authenticateRequest(hdr).auth, r |-> LinkRequestResult(hdr, g, Null)] :
          hdr \in {x \in Headers : authenticateRequest(x).ok}, g \in LinkBodies }
    \cup
    { [auth |-> hv[1].auth, r |-> LinkResumeResult(hv[1], hv[2])] :
          hv \in { x \in Suspended("link") \X ProviderAnswers :
                       x[2] \in verifyGoogleAccessToken(x[1].googleAccessToken) } }

\* The token is accepted by authenticateRequest in the state the response
\* leaves behind.
ValidatesIn(token, tokens) ==
    /\ JwtVerify(token, JWT_SECRET, now)
    /\ MapHas(tokens, token)
    /\ ~(tokens[token].expiresAt < now)

\* C27 (link issues a fresh session).  Every /auth/link answered 200
\* returns a token that is in the session registry, is accepted at once,
\* and whose claims carry the caller's wallet address and, as
\* linkedGoogleId, the identity the wallet has just been linked to.
C27_LinkIssuesSession ==
    \A x \in LinkResponses :
        x.r.status = 200 =>
            LET token == x.r.body.token
                w == WalletOf(x.auth)
            IN
            /\ ValidatesIn(token, x.r.activeTokens)
            /\ token.claims.address = Str(w)
            /\ token.claims.linkedGoogleId = x.r.walletDirectory[w].googleId
            /\ token.claims.linkedGoogleId = x.r.body.linkedGoogleId
            /\ token.claims.linkedGoogleId # Null
            /\ w \in WalletSet(x.r.userDirectory, token.claims.linkedGoogleId)

\* C27's case: a link is answered 200 both to an arriving request and to a
\* handler resuming from the provider, one of them for a wallet that is
\* not linked yet.
C27_Witness ==
    /\ \E hdr \in Headers, g \in LinkBodies :
          /\ authenticateRequest(hdr).ok
          /\ LinkRequestResult(hdr, g, Null).status = 200
          /\ LinkedTo(WalletOf(authenticateRequest(hdr).auth)) = Null
    /\ \E h \in Suspended("link") :
          \E v \in verifyGoogleAccessToken(h.googleAccessToken) :
              LinkResumeResult(h, v).status = 200

(* ------------------------- links are permanent ------------------------ *)
\* C28 (links are permanent).  In every step a wallet that is linked to an
\* identity stays linked to that identity, and every wallet in the wallet
\* set of an identity stays in it.
C28_LinksPermanent ==
    [][/\ \A w \in DOMAIN walletDirectory :
             walletDirectory[w].googleId # Null =>
                 /\ MapHas(walletDirectory', w)
                 /\ walletDirectory'[w].googleId = walletDirectory[w].googleId
        /\ \A g \in DOMAIN userDirectory :
             WalletSet(userDirectory, g) \subseteq WalletSet(userDirectory', g)]_vars

\* C28's case: a linked wallet, in the wallet set of its identity, whose
\* session asks to be linked to another identity and is refused, and a
\* second wallet that can join the same identity.
C28_Witness ==
    \E w \in DOMAIN walletDirectory :
        LET G == walletDirectory[w].googleId IN
        /\ G # Null
        /\ w \in WalletSet(userDirectory, G)
        /\ \E hdr \in Headers, g \in GoogleIds \ {G} :
              /\ authenticateRequest(hdr).ok
              /\ WalletOf(authenticateRequest(hdr).auth) = w
              /\ LinkRequestResult(hdr, g, Null).status = 409
        /\ \E hdr \in Headers :
              /\ authenticateRequest(hdr).ok
              /\ WalletOf(authenticateRequest(hdr).auth) # w
              /\ LinkRequestResult(hdr, G, Null).status = 200

(* ----------------------- the case of an address ----------------------- *)
\* The spellings a client may send that differ from the address only in the
\* case of their letters.
CaseSpellings(a) ==
    {raw \in RawAddresses : raw.type = "string" /\ toLowerCase(raw.chars) = a}

\* Those of them that begin with the prefix as the code spells it.
PrefixedSpellings(a) == {raw \in CaseSpellings(a) : startsWith0x(raw.chars)}

\* /auth/nonce for the spelling stores its challenge under the address.
SameKey(raw, a) ==
    /\ NonceResult(raw).status = 200
    /\ DOMAIN NonceResult(raw).pendingNonces = DOMAIN pendingNonces \cup {a}

\* The challenge stored for the address, while it has not expired, is
\* verified by a /auth/verify that spells the address this way, and the
\* session is one of the address.
VerifiesAs(raw, a) ==
    (MapHas(pendingNonces, a) /\ ~NonceExpired(pendingNonces[a], now)) =>
        LET r == VerifyRequestResult(raw, Sign(a, LatestMessage(a))) IN
        /\ r.status = 0
        /\ r.handler.normalized = a
        /\ VerifyResumeResult(r.handler, "true").status = 200
        /\ VerifyResumeResult(r.handler, "true").token.claims.address = Str(a)
        /\ MapHas(VerifyResumeResult(r.handler, "true").walletDirectory, a)

\* The sessions of the address that are accepted now.
SessionsOf(a) ==
    {hdr \in Headers : /\ authenticateRequest(hdr).ok
                       /\ authenticateRequest(hdr).auth.address = Str(a)}

\* C29 as amended: the spellings with the prefix "0x" that differ only in
\* the case of the characters after it denote the same challenge key, the
\* same wallet record and the same session subject; the profile reports the
\* lowercase address and, for a wallet with no link, linkedGoogleId null
\* and wallets = [lowercase address].
C29_CaseAfterPrefix ==
    \A a \in Wallets :
        /\ \A raw \in PrefixedSpellings(a) : SameKey(raw, a) /\ VerifiesAs(raw, a)
        /\ \A hdr \in SessionsOf(a) :
              /\ ProfileResult(hdr).body.address = a
              /\ LinkedTo(a) = Null =>
                    ProfileResult(hdr).body =
                        [address |-> a, linkedGoogleId |-> Null, wallets |-> <<a>>]

\* C29 as stated: every spelling that differs from the address only in
\* letter case denotes the same challenge key, wallet record and session
\* subject, and the profile reports the lowercase address with
\* linkedGoogleId null and wallets = [lowercase address].
C29_CaseInsensitive ==
    \A a \in Wallets :
        /\ \A raw \in CaseSpellings(a) : SameKey(raw, a) /\ VerifiesAs(raw, a)
        /\ \A hdr \in SessionsOf(a) :
              ProfileResult(hdr).body =
                  [address |-> a, linkedGoogleId |-> Null, wallets |-> <<a>>]

\* C29's case: an address with more than one accepted spelling has a
\* challenge that has not expired and a session, and no link.
C29_Witness ==
    \E a \in Wallets :
        /\ Cardinality(PrefixedSpellings(a)) > 1
        /\ MapHas(pendingNonces, a) /\ ~NonceExpired(pendingNonces[a], now)
        /\ SessionsOf(a) # {}
        /\ LinkedTo(a) = Null

(* ------------------------ the membership gate ------------------------- *)
\* C30 (on-chain membership gating).  A storeRecipe by an account that is
\* not a lifetime member reverts, so the creator of every recipe that is
\* stored is a member when it is stored; a purchase by a member, or with
\* less than the price, reverts; and a member stays a member.
C30_MembershipGate ==
    /\ [](\A sender \in Accounts :
            /\ sender \notin lifetimeMembers =>
                  \A dishName \in DishNames, metadataURI \in MetadataURIs :
                      storeRecipeResult(sender, dishName, metadataURI).reverted
            /\ \A value \in Values :
                  (sender \in lifetimeMembers \/ value < LIFETIME_MEMBERSHIP_PRICE) =>
                      purchaseLifetimeMembershipResult(sender, value).reverted)
    /\ [][/\ Len(recipes') > Len(recipes) =>
                recipes'[Len(recipes')].creator \in lifetimeMembers
          /\ lifetimeMembers \subseteq lifetimeMembers']_vars

(* ---------------------- the sweep among requests ---------------------- *)
\* What a request is answered, up to the wording of the error.
Answer(r) == [status |-> r.status]
\* A /auth/verify goes on to the signature check only with a challenge that
\* has not expired, and a request is authenticated only with a session
\* whose token and registry entry have not expired.
OnlyUnexpiredPass ==
    /\ \A address \in RawAddresses, signature \in SigInputs :
          VerifyRequestResult(address, signature).status = 0 =>
              ~(VerifyRequestResult(address, signature).handler.nonceRecord.expiresAt < now)
    /\ \A hdr \in Headers :
          authenticateRequest(hdr).ok =>
              /\ JwtVerify(hdr[1], JWT_SECRET, now)
              /\ ~(activeTokens[hdr[1]].expiresAt < now)

\* The requests that could arrive before a sweep are answered the same
\* after it, and leave the same stores behind once the sweep has run.
SweepCommutes ==
    /\ \A address \in RawAddresses, signature \in SigInputs :
          /\ Answer(VerifyRequestResult(address, signature))
                = Answer(VerifyRequestResult(address, signature))'
          /\ VerifyRequestResult(address, signature).handler
                = VerifyRequestResult(address, signature).handler'
          /\ SweepMap(VerifyRequestResult(address, signature).pendingNonces, now)
                = VerifyRequestResult(address, signature).pendingNonces'
    /\ \A h \in Suspended("verify"), v \in SignatureAnswers :
          /\ Answer(VerifyResumeResult(h, v)) = Answer(VerifyResumeResult(h, v))'
          /\ SweepMap(VerifyResumeResult(h, v).pendingNonces, now)
                = VerifyResumeResult(h, v).pendingNonces'
          /\ SweepMap(VerifyResumeResult(h, v).activeTokens, now)
                = VerifyResumeResult(h, v).activeTokens'
    /\ \A hdr \in Headers :
          /\ authenticateRequest(hdr).ok = authenticateRequest(hdr).ok'
          /\ authenticateRequest(hdr).status = authenticateRequest(hdr).status'
          /\ authenticateRequest(hdr).auth = authenticateRequest(hdr).auth'
          /\ SweepMap(authenticateRequest(hdr).activeTokens, now)
                = authenticateRequest(hdr).activeTokens'

ExpiredChallenge(a) == MapHas(pendingNonces, a) /\ pendingNonces[a].expiresAt < now
ExpiredSessions == {t \in DOMAIN activeTokens : activeTokens[t].expiresAt < now}

\* C32 (eventual eviction).  With the timer of the sweep firing, a
\* challenge whose expiresAt has passed is eventually out of the challenge
\* store, and session entries whose expiresAt has passed are eventually out
\* of the registry, whether or not a request touches them.
C32_EventualEviction ==
    /\ \A a \in Wallets : ExpiredChallenge(a) ~> ~ExpiredChallenge(a)
    /\ (ExpiredSessions # {}) ~> (ExpiredSessions = {})

\* C32's case: a challenge and a session whose expiresAt has passed are
\* in their maps, no handler is running and the clock has stopped.
C32_Witness ==
    /\ \E a \in Wallets : ExpiredChallenge(a)
    /\ ExpiredSessions # {}
    /\ inflight = EmptyBag
    /\ ticks = MaxTicks

(* ------------------------- resets that overlap ------------------------ *)
\* The reset handlers that have written a password on the strength of the
\* code and have not answered yet, counted with their multiplicity.
WrittenNotAnswered(c) ==
    LET hs == {h \in Suspended("reset") : h.pc = "delete" /\ CodeOf(h.otpData) = c}
    IN BagCardinality([h \in hs |-> inflight[h]])

\* C33 (one reset per challenge under concurrency).  For every challenge,
\* the resets it has carried to a 200 and the reset handlers that have
\* written a password for it and are about to answer are at most one.
C33_OneResetUnderConcurrency ==
    \A c \in Codes : otpLog[c].resets + WrittenNotAnswered(c) <= 1

(* --------------------- a verification that fails ---------------------- *)
\* The step is a /auth/verify for the address resuming with an accepted
\* signature.
VerifySucceedsFor(a) ==
    \E h \in Suspended("verify") :
        /\ h.normalized = a
        /\ "true" \in verifyMessage(h.normalized, h.nonceRecord.message, h.signature)
        /\ inflight' = inflight (-) SetToBag({h})
        /\ activeTokens' = VerifyResumeResult(h, "true").activeTokens

\* C34 (a failed verification has no side effects).  A /auth/verify that
\* ends in a failure, at its arrival or when verifyMessage has answered,
\* leaves the wallet directory, the user directory and the session registry
\* as they are, and a wallet record appears only in the step in which a
\* /auth/verify for its address succeeds.
C34_FailedVerifyNoEffect ==
    /\ [](\A h \in Suspended("verify") :
            \A v \in verifyMessage(h.normalized, h.nonceRecord.message, h.signature) :
                VerifyResumeResult(h, v).status # 200 =>
                    /\ VerifyResumeResult(h, v).walletDirectory = walletDirectory
                    /\ VerifyResumeResult(h, v).activeTokens = activeTokens)
    /\ [][/\ <<walletDirectory, userDirectory, activeTokens>>'
                 # <<walletDirectory, userDirectory, activeTokens>> =>
               /\ \A address \in RawAddresses, signature \in SigInputs :
                     ~VerifyRequest(address, signature)
               /\ \A h \in Suspended("verify"), v \in SignatureAnswers \ {"true"} :
                     ~VerifyResume(h, v)
          /\ \A a \in DOMAIN walletDirectory' \ DOMAIN walletDirectory :
               VerifySucceedsFor(a)]_vars

\* C34's case: a wallet has a record and a session while a /auth/verify
\* with a signature that will be refused is waiting for verifyMessage, for
\* an address that has no record yet.
C34_Witness ==
    /\ walletDirectory # EmptyMap
    /\ activeTokens # EmptyMap
    /\ \E h \in Suspended("verify") :
          /\ ~MapHas(walletDirectory, h.normalized)
          /\ "false" \in verifyMessage(h.normalized, h.nonceRecord.message, h.signature)

(* ---------------------- authentication soundness ---------------------- *)
\* The sessions the step enters in the registry.
IssuedInStep ==
    {t \in DOMAIN activeTokens' :
        ~MapHas(activeTokens, t) \/ activeTokens'[t] # activeTokens[t]}

\* The step is a /auth/verify for the address completing with a signature
\* by the address over the challenge the handler read for it.
VerifiedFor(a) ==
    \E h \in Suspended("verify") :
        /\ h.normalized = a
        /\ h.signature = Sign(a, h.nonceRecord.message)
        /\ \E n \in 1..nonceCount : h.nonceRecord = NonceRecord(n, h.nonceRecord.expiresAt - NONCE_TTL_MS)
        /\ inflight' = inflight (-) SetToBag({h})

\* The step is a /auth/link of a request that an accepted session of the
\* address authenticated, arriving or resuming from the provider.
LinkedFor(a) ==
    \/ \E hdr \in SessionsOf(a), g \in LinkBodies, at \in LinkAccessTokens :
          LinkRequest(hdr, g, at)
    \/ \E h \in Suspended("link"), p \in ProviderAnswers :
          /\ h.auth.address = Str(a)
          /\ LinkResume(h, p)

\* C35 (authentication soundness).  A session whose subject is the wallet
\* address a enters the registry only in a step of a /auth/verify that has
\* checked a signature by a over a challenge issued for a, or of a
\* /auth/link authenticated by a session of a; so every active session is
\* of an address that has a wallet record, and every link handler in
\* flight was authenticated for an address that has one.
C35_Soundness ==
    /\ [](/\ \A t \in DOMAIN activeTokens :
               MapHas(walletDirectory, normalizeAddress(activeTokens[t].payload.address))
          /\ \A h \in Suspended("link") :
               MapHas(walletDirectory, normalizeAddress(h.auth.address)))
    /\ [][\A t \in IssuedInStep :
             LET a == normalizeAddress(activeTokens'[t].payload.address) IN
             /\ t.claims = activeTokens'[t].payload
             /\ VerifiedFor(a) \/ LinkedFor(a)]_vars

\* C35's case: a session that carries a link is active while a verification
\* for another address, with the signature of the session's wallet, is
\* waiting for verifyMessage.
C35_Witness ==
    /\ \E t \in DOMAIN activeTokens : activeTokens[t].payload.linkedGoogleId # Null
    /\ \E h \in Suspended("verify") :
          h.signature.kind = "sig" /\ h.signature.signer # h.normalized

(* ------------------- the challenge a verify has read ------------------ *)
\* C36 (a verify touches only the challenge it read).  When the challenge
\* stored for the address of a suspended /auth/verify is no longer the one
\* the handler read, the handler completes without removing it: the newer
\* challenge is still stored afterwards.
C36_NewerChallengeKept ==
    \A h \in Suspended("verify") :
        (MapHas(pendingNonces, h.normalized) /\ pendingNonces[h.normalized] # h.nonceRecord) =>
            \A v \in verifyMessage(h.normalized, h.nonceRecord.message, h.signature) :
                /\ MapHas(VerifyResumeResult(h, v).pendingNonces, h.normalized)
                /\ VerifyResumeResult(h, v).pendingNonces[h.normalized]
                      = pendingNonces[h.normalized]

(* ---------------------- sessions are independent ---------------------- *)
\* C37 (sessions are independent).  The token a completing /auth/verify is
\* about to issue is not the key of an entry that is active already, so
\* the session it opens is an entry of its own and a logout of the other
\* session leaves it registered.
C37_DistinctEntries ==
    \A h \in Suspended("verify") :
        "true" \in verifyMessage(h.normalized, h.nonceRecord.message, h.signature) =>
            LET r == VerifyResumeResult(h, "true") IN
            /\ ~MapHas(activeTokens, r.token)
            /\ \A t \in DOMAIN activeTokens :
                  MapHas(MapDelete(r.activeTokens, t), r.token)

(* ------------------- the challenge a reset has read ------------------- *)
\* The challenge the suspended reset has read is no longer the stored one.
Replaced(h) ==
    /\ h.pc # "get"
    /\ MapHas(otps, h.phone)
    /\ CodeOf(otps[h.phone]) # CodeOf(h.otpData)

\* C38 (a reset acts only on the challenge it verified).  When request-otp
\* has replaced the challenge of a phone while a reset for it is suspended,
\* the next step of the reset leaves the new challenge as it is, its
\* attempts included, and writes no password.
C38_ResetKeepsNewChallenge ==
    \A h \in Suspended("reset") :
        Replaced(h) =>
            /\ ResetStepResult(h).otps = otps
            /\ ResetStepResult(h).users = users

(* ------------------------------ the client ---------------------------- *)
\* App and the services it calls.  A state setter queues its update: the
\* variables walletAddress, authToken and authProfile hold the state with
\* every queued update applied, rendered holds what the callbacks and effects
\* of the last render closed over.  The effects of one commit run one after
\* the other, in the order of their declaration, before the next render.

\* The account the wallet provider hands out, in the provider's spelling.
ProviderAccount == Str(<<"0", "x", "A">>)
\* accountsChanged: no account left, or the account.
AccountLists == {<<>>, <<ProviderAccount>>}

Request(kind, token, address) == [kind |-> kind, token |-> token, address |-> address]
Closure == [walletAddress |-> walletAddress, authToken |-> authToken,
            authProfile |-> authProfile]

\* localStorage.setItem(AUTH_TOKEN_STORAGE_KEY, token): the stored value.
persistAuthToken(token) == Some(token)
\* localStorage.getItem(AUTH_TOKEN_STORAGE_KEY)
retrievePersistedToken == localStorage
\* localStorage.removeItem(AUTH_TOKEN_STORAGE_KEY): the stored value.
clearPersistedToken == None

\* clearAuthState: the state and the storage after the call.
clearAuthState ==
    [authToken |-> None, authProfile |-> None, localStorage |-> clearPersistedToken]

\* The user opens the page: useState(null) everywhere, the first render, and
\* the effects of the first commit.
Mount ==
    /\ ~mounted
    /\ mounted' = TRUE
    /\ walletAddress' = None
    /\ authToken' = None
    /\ authProfile' = None
    /\ rendered' = [walletAddress |-> None, authToken |-> None, authProfile |-> None]
    /\ effects' = <<"restore", "sync">>
    /\ UNCHANGED <<localStorage, requests>>

\* The page is closed: the state and the pending continuations are gone; a
\* logout already sent still reaches the server.
Unload ==
    /\ mounted
    /\ mounted' = FALSE
    /\ walletAddress' = None
    /\ authToken' = None
    /\ authProfile' = None
    /\ rendered' = [walletAddress |-> None, authToken |-> None, authProfile |-> None]
    /\ effects' = <<>>
    /\ requests' = {r \in requests : r.kind = "logout"}
    /\ UNCHANGED localStorage

\* A render after queued updates; the wallet/auth effect runs again when one
\* of walletAddress, authToken, handleSignInWithMetamask (which depends on
\* authProfile and authToken) has changed.
Render ==
    /\ mounted
    /\ effects = <<>>
    /\ rendered # Closure
    /\ rendered' = Closure
    /\ effects' = <<"sync">>
    /\ UNCHANGED <<localStorage, mounted, walletAddress, authToken, authProfile, requests>>

\* The session restore effect, up to the call of fetchAuthenticatedProfile.
RestoreEffectResult ==
    LET token == retrievePersistedToken IN
    IF token = None THEN [authToken |-> authToken, requests |-> requests]
    ELSE [authToken |-> token,
          requests |-> requests \cup {Request("restore", token, None)}]

RestoreEffect ==
    LET r == RestoreEffectResult IN
    /\ effects # <<>> /\ Head(effects) = "restore"
    /\ effects' = Tail(effects)
    /\ authToken' = r.authToken
    /\ requests' = r.requests
    /\ UNCHANGED <<localStorage, mounted, walletAddress, authProfile, rendered>>

\* handleSignInWithMetamask, up to its first await: nothing to do when the
\* profile of this address is loaded and a token is held.
handleSignInWithMetamask(address) ==
    LET normalizedAddress == toLowerCase(address.chars) IN
    IF rendered.authProfile # None /\ rendered.authProfile[1].address = normalizedAddress
       /\ rendered.authToken # None
        THEN {}
        ELSE {Request("signin", None, Some(normalizedAddress))}

\* The wallet/auth synchronisation effect.
SyncEffectResult ==
    IF rendered.walletAddress = None THEN
        clearAuthState @@
        [requests |-> requests \cup
                      (IF rendered.authToken # None
                           THEN {Request("logout", rendered.authToken, None)} ELSE {})]
    ELSE
        [authToken |-> authToken, authProfile |-> authProfile,
         localStorage |-> localStorage,
         requests |-> requests \cup
                      (IF rendered.authToken = None
                           THEN handleSignInWithMetamask(rendered.walletAddress[1]) ELSE {})]

SyncEffect ==
    LET r == SyncEffectResult IN
    /\ effects # <<>> /\ Head(effects) = "sync"
    /\ effects' = Tail(effects)
    /\ authToken' = r.authToken
    /\ authProfile' = r.authProfile
    /\ localStorage' = r.localStorage
    /\ requests' = r.requests
    /\ UNCHANGED <<mounted, walletAddress, rendered>>

\* connectWalletFlow once connectWallet has resolved.
connectWalletFlow(address) ==
    /\ mounted
    /\ walletAddress' = Some(address)
    /\ UNCHANGED <<localStorage, mounted, authToken, authProfile, rendered, effects, requests>>

\* The accountsChanged listener.
handleAccountsChangedResult(accounts) ==
    LET logouts == IF rendered.authToken # None
                       THEN {Request("logout", rendered.authToken, None)} ELSE {}
    IN
    IF accounts = <<>> THEN
        clearAuthState @@ [walletAddress |-> None, requests |-> requests \cup logouts]
    ELSE
        clearAuthState @@
        [walletAddress |-> Some(accounts[1]),
         requests |-> requests \cup logouts \cup handleSignInWithMetamask(accounts[1])]

handleAccountsChanged(accounts) ==
    LET r == handleAccountsChangedResult(accounts) IN
    /\ mounted
    /\ walletAddress' = r.walletAddress
    /\ authToken' = r.authToken
    /\ authProfile' = r.authProfile
    /\ localStorage' = r.localStorage
    /\ requests' = r.requests
    /\ UNCHANGED <<mounted, rendered, effects>>

\* The sessions the server holds for an address: what /auth/verify answers a
\* sign-in of that address with.
Verifications(normalizedAddress) ==
    {t \in DOMAIN activeTokens : t.claims.address = Str(normalizedAddress)}

\* handleSignInWithMetamask once verifySignature has resolved, up to the call
\* of fetchAuthenticatedProfile.
SignedIn(req, token) ==
    /\ req \in requests /\ req.kind = "signin"
    /\ token \in Verifications(req.address[1])
    /\ localStorage' = persistAuthToken(token)
    /\ authToken' = Some(token)
    /\ requests' = (requests \ {req}) \cup {Request("profile", Some(token), req.address)}
    /\ UNCHANGED <<mounted, walletAddress, authProfile, rendered, effects>>

\* handleSignInWithMetamask when one of its three calls has thrown.
SignInFailed(req) ==
    /\ req \in requests /\ req.kind = "signin"
    /\ localStorage' = clearAuthState.localStorage
    /\ authToken' = clearAuthState.authToken
    /\ authProfile' = clearAuthState.authProfile
    /\ requests' = requests \ {req}
    /\ UNCHANGED <<mounted, walletAddress, rendered, effects>>

\* fetchAuthenticatedProfile settles: GET /auth/profile with the token, then
\* the continuation of its caller.
ProfileSettledResult(req) ==
    LET response == ProfileResult(req.token)
        same == [authToken |-> authToken, localStorage |-> localStorage]
    IN
    IF response.status = 200 THEN [authProfile |-> Some(response.body)] @@ same
    ELSE IF req.kind = "restore" THEN clearAuthState
    ELSE [authProfile |-> Some([address |-> req.address[1], linkedGoogleId |-> Null,
                                wallets |-> <<req.address[1]>>])] @@ same

ProfileSettled(req) ==
    LET r == ProfileSettledResult(req) IN
    /\ req \in requests /\ req.kind \in {"restore", "profile"}
    /\ Profile(req.token)
    /\ authProfile' = r.authProfile
    /\ authToken' = r.authToken
    /\ localStorage' = r.localStorage
    /\ requests' = requests \ {req}
    /\ UNCHANGED <<mounted, walletAddress, rendered, effects>>

\* logout settles: POST /auth/logout with the token; its errors are swallowed.
LogoutSettled(req) ==
    /\ req \in requests /\ req.kind = "logout"
    /\ Logout(req.token)
    /\ requests' = requests \ {req}
    /\ UNCHANGED <<localStorage, mounted, walletAddress, authToken, authProfile,
                   rendered, effects>>

\* History: the token the page was opened with, when the server accepts it
\* and no logout of it is under way; forgotten once a wallet is connected or
\* the page is closed.
LogRestoring ==
    restoring' = IF localStorage # None /\ authenticateRequest(localStorage).ok
                    /\ Request("logout", localStorage, None) \notin requests
                     THEN localStorage ELSE None

\* What stays as it is while the browser acts, and while the servers do.
Elsewhere == <<now, ticks, pendingNonces, walletDirectory, userDirectory, activeTokens,
               nonceCount, inflight, nonceLog, revoked, cred, limiter, chain>>
ServerOnly == <<nonceLog, revoked, cred, apart>>

\* One browser with one wallet, and the server it signs in to.
NextClient ==
    \/ Login({Str(W1)}) /\ UNCHANGED ServerOnly
    \/ Mount /\ LogRestoring /\ UNCHANGED Elsewhere
    \/ Unload /\ restoring' = None /\ UNCHANGED Elsewhere
    \/ Render /\ UNCHANGED <<restoring, Elsewhere>>
    \/ RestoreEffect /\ UNCHANGED <<restoring, Elsewhere>>
    \/ SyncEffect /\ UNCHANGED <<restoring, Elsewhere>>
    \/ connectWalletFlow(ProviderAccount) /\ restoring' = None /\ UNCHANGED Elsewhere
    \/ \E accounts \in AccountLists :
          handleAccountsChanged(accounts) /\ restoring' = None /\ UNCHANGED Elsewhere
    \/ \E req \in requests, token \in DOMAIN activeTokens :
          SignedIn(req, token) /\ UNCHANGED <<restoring, Elsewhere>>
    \/ \E req \in requests : SignInFailed(req) /\ UNCHANGED <<restoring, Elsewhere>>
    \/ \E req \in requests :
          /\ ProfileSettled(req)
          /\ UNCHANGED <<restoring, nonceLog, revoked, cred, limiter, chain>>
    \/ \E req \in requests :
          /\ LogoutSettled(req)
          /\ UNCHANGED <<restoring, nonceLog, revoked, cred, limiter, chain>>

SpecClient == Init /\ [][NextClient]_vars

\* Nothing of the client is under way.
Quiescent == mounted /\ effects = <<>> /\ requests = {} /\ rendered = Closure

\* C39: when the page is opened with a stored token that the server accepts
\* and no wallet is connected, the token stays in local storage and its
\* session stays in the registry, and once the effects and their calls are
\* through, the client holds the token as authToken with the profile loaded.
C39_SessionRestored ==
    restoring # None =>
        /\ localStorage = restoring
        /\ MapHas(activeTokens, restoring[1])
        /\ Quiescent => authToken = restoring /\ authProfile # None

====
